---------------------------- MODULE Spec2Model ----------------------------
(***************************************************************************)
(* Model of the multi-tenant connection registry, class DatabaseManager of *)
(* src/server/services/database/connection.js (lines 160-279), and of the  *)
(* event bus: the transport, class EventBusService of src/unnamed/part_002,*)
(* and its manager, class EventBusManager of                               *)
(* src/server/services/event-bus/eventManager.js (lines 1-234).            *)
(*                                                                         *)
(* The registry runs on a single-threaded event loop: an async method runs *)
(* atomically up to its first await and its continuation runs atomically   *)
(* when the awaited promise settles.  Every action below is one such run.  *)
(* The mongoose connection objects are the environment: createConnection   *)
(* and close settle with success or failure, and the backend moves a       *)
(* handle's readyState and emits the events the registry listens to.       *)
(* The redis clients are the environment of the event bus: their connect,  *)
(* publish, subscribe, unsubscribe and disconnect commands settle with     *)
(* success or failure, in the order they were issued on a client, and the  *)
(* subscriber client emits the messages of the channels it is subscribed   *)
(* to.  Spec runs the registry, SpecBus the transport under direct callers *)
(* and SpecMgr the manager over the transport.                             *)
(* The single-connection variant, class DatabaseConnection of              *)
(* connection.js (lines 1-154), runs in SpecDb: mongoose.connect settles   *)
(* with success or failure, and the connection emits the events the class  *)
(* listens to.                                                             *)
(* The two entry points, BusinessVisionAIServer of config.js (lines        *)
(* 512-707) and the server of src/unnamed/part_001, run in SpecSrv: the    *)
(* services they await settle with success or failure or not at all.       *)
(* SpecHttp answers the health routes over the registry.                   *)
(***************************************************************************)
EXTENDS Integers, Sequences, FiniteSets, TLC

\* ------------------------------------------------------------- bounds
\* the direct invocations by callers (connect, disconnect, get, status), the
\* backend events and the failed createConnection / close settlements that
\* one behaviour holds; connectAllDatabases and disconnectAllDatabases run
\* once each on top of that
MaxSteps == 2

\* the calls made on the transport by its direct callers, the messages of
\* other publishers, the redis client events and the failed redis commands
\* that one behaviour of SpecBus holds; connect runs once on top of that
MaxBusSteps == 3

\* the same for the manager in SpecMgr, its gracefulShutdown included;
\* initialize runs once on top of that
MaxMgrSteps == 2

\* SpecRoute: events of other publishers that arrive at the manager
MaxRouteSteps == 1

\* SpecDb: the direct calls of connect() and the events of the mongoose
\* connection that one behaviour holds; initialize runs once on top of that
MaxDbSteps == 2

\* SpecSrv: the termination signals the process receives and the errors
\* nothing catches
MaxSrvSteps == 2

\* ---------------------------------------------------------- constants
\* the fixed services of connectAllDatabases, in the order of the array
Services == <<"strategy", "assets", "usage", "eventStore">>

ServiceNames == {Services[i] : i \in 1..Len(Services)}

\* a service name no connect call ever registers
UnknownService == "unknown-service"

\* the value standing for "no connection object" (undefined)
NoHandle == 0

\* mongoose readyState codes
Disconnected == 0
Connected == 1
Connecting == 2
Disconnecting == 3

\* the states array of getConnectionStatus
States == <<"disconnected", "connected", "connecting", "disconnecting">>

VARIABLES
    connections,    \* DatabaseManager.connections: service -> handle, NoHandle when absent
    handles,        \* the connection objects made so far, per service: <<[readyState, open]>>;
                    \* a handle is named by its service and its position
    connectPending, \* direct connectToDatabase calls suspended in createConnection, per service
    allPc,          \* connectAllDatabases: "idle", "pending", "resolved" or "rejected"
    allPending,     \* its connectToDatabase calls still suspended in createConnection
    allError,       \* the service whose error connectAllDatabases rejected with
    closing,        \* disconnectDatabase calls suspended in close(): [svc, h, via]
    dallPc,         \* disconnectAllDatabases: "idle", "pending", "resolved" or "rejected"
    dallKeys,       \* the keys disconnectAllDatabases found when it was called
    numSteps,       \* direct invocations, backend events and failures so far
    ret,            \* what the last run did: the operation and what it returned
    \* EventBusService
    isConnected,    \* this.isConnected
    clients,        \* the redis clients by role: "null", "connecting", "ready", "failed", "closed"
    attached,       \* the 'error', 'ready' and 'message' listeners are on the clients
    connectPc,      \* connect(): "idle", "pending", "resolved" or "rejected"
    backendSubs,    \* the channels the subscriber client is subscribed to
    listeners,      \* the EventEmitter's listeners, in the order bound: <<[channel, cb]>>
    subQueue,       \* subscribe and unsubscribe commands awaiting the subscriber's reply
    pubQueue,       \* publish commands awaiting the publisher's reply
    inbox,          \* published messages on their way to the subscriber client
    disc,           \* disconnect(): [pc, at, via], at the role whose disconnect is awaited
    \* EventBusManager
    channels,       \* this.channels, in insertion order: <<[channel, handler]>>
    isInitialized,  \* this.isInitialized
    initPc,         \* initialize(): "idle", "connecting", "resolved" or "rejected"
    shutdown,       \* gracefulShutdown(): [pc, idx, err], idx the key the loop is at
    process,        \* the server process: "running", "exiting" or "exited"
    busSteps,       \* calls, foreign messages, client events and failures so far
    busRet,         \* what the last run on the event bus did
    \* DatabaseConnection
    dbConnection,   \* this.connection: "null" or "set"
    dbIsConnected,  \* this.isConnected
    connectionRetries, \* this.connectionRetries
    dbCalls,        \* the connect() calls in flight: <<[via, pc, retries, clean]>>, pc
                    \* "connecting" in mongoose.connect or "delaying" in delay()
    dbTimers,       \* the delays of the reconnect timers the 'disconnected' listener set
    dbAttached,     \* setupEventHandlers() has put the listeners on the connection
    dbInitPc,       \* initialize(): "idle", "pending", "resolved" or "rejected"
    dbSteps,        \* direct calls and connection events so far
    dbRet,          \* what the last run of the single connection did
    \* the entry points
    srvEntry,       \* the entry point that runs: "none", "js" (BusinessVisionAIServer)
                    \* or "ts" (part_001)
    srvPc,          \* startup: "idle", "database", "eventBus" or "started"
    srvHttp,        \* the HTTP server: "none", "binding", "listening", "closing",
                    \* "closed" or "failed"
    isShuttingDown, \* this.isShuttingDown
    srvRuns,        \* the shutdown sequences in flight: <<[pc, code]>>, pc the step
                    \* it awaits, "http", "eventBus" or "database", code its exit code
    srvGuards,      \* the shutdown-timeout timers that are set
    srvExit,        \* how the process ended: "none", "0", "1" or "killed"
    srvDone,        \* the steps that have completed
    srvSteps,       \* termination signals and uncaught errors so far
    srvRet          \* what the last run of the entry point did

regVars == <<connections, handles, connectPending, allPc, allPending, allError,
             closing, dallPc, dallKeys, numSteps, ret>>

busVars == <<isConnected, clients, attached, connectPc, backendSubs, listeners,
             subQueue, pubQueue, inbox, disc, channels, isInitialized, initPc,
             shutdown, process, busSteps, busRet>>

dbVars == <<dbConnection, dbIsConnected, connectionRetries, dbCalls, dbTimers,
            dbAttached, dbInitPc, dbSteps, dbRet>>

srvVars == <<srvEntry, srvPc, srvHttp, isShuttingDown, srvRuns, srvGuards,
             srvExit, srvDone, srvSteps, srvRet>>

vars == <<regVars, busVars, dbVars, srvVars>>

\* ------------------------------------------------------------ helpers
NoStatus == [s \in ServiceNames |-> "absent"]

Ret(op, svc, via, out, h) ==
    [op |-> op, svc |-> svc, via |-> via, out |-> out, h |-> h, status |-> NoStatus]

\* the connection objects made so far for service s
HandleIds(s) == 1..Len(handles[s])

\* this.connections.has(serviceName)
Has(s) == s \in ServiceNames /\ connections[s] # NoHandle

\* connection.readyState of a registered service
ReadyStateOf(s) == handles[s][connections[s]].readyState

\* mutant of ReadyStateName: the array is indexed one off
ReadyStateNameShifted(rs) == IF rs \in 1..4 THEN States[rs] ELSE "unknown"

\* states[connection.readyState] || 'unknown'
ReadyStateName(rs) == IF rs \in 0..3 THEN States[rs + 1] ELSE "unknown"

\* getConnectionStatus(): one entry per key of the map
Status ==
    [s \in ServiceNames |->
        IF Has(s) THEN ReadyStateName(ReadyStateOf(s)) ELSE "absent"]

\* mutant of CanReuse: the test compares with the wrong readyState code
CanReuseWrongState(s) == Has(s) /\ ReadyStateOf(s) = Connecting

\* the reuse test of connectToDatabase: has(serviceName) && readyState === 1
CanReuse(s) == Has(s) /\ ReadyStateOf(s) = Connected

\* this.connections.set(serviceName, connection)
Register(s, h) == [connections EXCEPT ![s] = h]

\* this.connections.delete(serviceName)
Unregister(s) == [connections EXCEPT ![s] = NoHandle]

\* mutant of GetResult: the absence test is missing, undefined is returned
GetResultUnchecked(s) ==
    Ret("get", s, "direct", "returned", IF Has(s) THEN connections[s] ELSE NoHandle)

\* getConnection(serviceName): the handle, or the thrown "not found" error
GetResult(s) ==
    IF Has(s)
    THEN Ret("get", s, "direct", "returned", connections[s])
    ELSE Ret("get", s, "direct", "NotFound", NoHandle)

\* mutant of DisconnectOutcomeOnCloseError: the catch block rethrows
DisconnectRethrows == "rejected"

\* how the promise of disconnectDatabase settles when close() rejected:
\* the catch block logs and does not rethrow
DisconnectOutcomeOnCloseError == "resolved"

\* what a rejected close() may leave in readyState
CloseErrorStates == {Disconnected, Connected, Disconnecting}

\* mutant of AllOnChildRejected: waits for every call to settle and keeps
\* the last error, as Promise.allSettled with a scan would
AllOnChildRejectedLast(s) ==
    [pc |-> IF allPending \ {s} = {} /\ allPc = "pending" THEN "rejected" ELSE allPc,
     err |-> s]

\* Promise.all over the connect calls, when the call for s rejects:
\* the first rejection settles it, later ones are ignored
AllOnChildRejected(s) ==
    IF allPc = "pending"
    THEN [pc |-> "rejected", err |-> s]
    ELSE [pc |-> allPc, err |-> allError]

\* Promise.all over the connect calls, when a call fulfils leaving rest
AllOnChildFulfilled(rest) ==
    IF allPc = "pending" /\ rest = {} THEN "resolved" ELSE allPc

\* mutant of DallSettled: the calls are not awaited
DallSettledUnawaited(rest) == TRUE

\* Promise.all over the disconnect calls: fulfilled once none is left
DallSettled(rest) == rest = {}

\* the disconnectDatabase calls of disconnectAllDatabases still suspended
DallChildren(cl) == {c \in cl : c.via = "all"}

\* Array.from(this.connections.keys())
Keys == {s \in ServiceNames : Has(s)}

\* ---------------------------------------------------------------- Init
\* ------------------------------------------------- event bus: values
\* the roles of the three redis clients, in the order connect() creates them
Roles == <<"publisher", "subscriber", "redisClient">>

RoleNames == {Roles[i] : i \in 1..Len(Roles)}

\* JavaScript values: the type, the text of a string or number, and the
\* members of an object in insertion order, each <<key, JSON text of value>>
Undefined == [t |-> "undefined", s |-> "", f |-> <<>>]

Null == [t |-> "null", s |-> "", f |-> <<>>]

Str(s) == [t |-> "string", s |-> s, f |-> <<>>]

Num(lit) == [t |-> "number", s |-> lit, f |-> <<>>]

Obj(f) == [t |-> "object", s |-> "", f |-> f]

\* what a run on the event bus did: the operation, its channel, who called,
\* how the call stands for its caller, the error it met, the payload that
\* was published, and for a dispatch the message text, the value emitted, the
\* listeners invoked and whether a listener's promise rejected unhandled
BusRet(op, c, via, out) ==
    [op |-> op, channel |-> c, via |-> via, out |-> out, err |-> "none",
     text |-> "", value |-> Undefined, sent |-> Undefined, invoked |-> <<>>,
     unhandled |-> FALSE]

\* the state after the two constructors
BusInit ==
    /\ isConnected = FALSE
    /\ clients = [r \in RoleNames |-> "null"]
    /\ attached = FALSE
    /\ connectPc = "idle"
    /\ backendSubs = {}
    /\ listeners = <<>>
    /\ subQueue = <<>>
    /\ pubQueue = <<>>
    /\ inbox = <<>>
    /\ disc = [pc |-> "idle", at |-> 0, via |-> "none"]
    /\ channels = <<>>
    /\ isInitialized = FALSE
    /\ initPc = "idle"
    /\ shutdown = [pc |-> "idle", idx |-> 0, err |-> "none"]
    /\ process = "running"
    /\ busSteps = 0
    /\ busRet = BusRet("init", "none", "none", "none")

\* what a run of the single connection did: the operation, who called, how
\* the call stands, the retries the call has made, the delay it awaits and
\* whether a reconnect timer was set
DbRet(op, via, out) ==
    [op |-> op, via |-> via, out |-> out, retries |-> 0, delay |-> 0,
     scheduled |-> FALSE, clean |-> TRUE]

\* the state after the constructor of DatabaseConnection
DbInit ==
    /\ dbConnection = "null"
    /\ dbIsConnected = FALSE
    /\ connectionRetries = 0
    /\ dbCalls = <<>>
    /\ dbTimers = <<>>
    /\ dbAttached = FALSE
    /\ dbInitPc = "idle"
    /\ dbSteps = 0
    /\ dbRet = DbRet("init", "none", "none")

\* what a run of an entry point did: the step it called or completed, or
\* "exit", and what it ran for, "startup", "signal", "fault" or "timer"; a
\* health route answers with a response code and a status
SrvRet(op, via, out) ==
    [op |-> op, via |-> via, out |-> out, code |-> 0, status |-> "none"]

\* the process before an entry point runs
SrvInit ==
    /\ srvEntry = "none"
    /\ srvPc = "idle"
    /\ srvHttp = "none"
    /\ isShuttingDown = FALSE
    /\ srvRuns = <<>>
    /\ srvGuards = 0
    /\ srvExit = "none"
    /\ srvDone = {}
    /\ srvSteps = 0
    /\ srvRet = SrvRet("init", "none", "none")

\* ----------------------------------------------------------------- Init
Init ==
    /\ BusInit
    /\ DbInit
    /\ SrvInit
    /\ connections = [s \in ServiceNames |-> NoHandle]
    /\ handles = [s \in ServiceNames |-> <<>>]
    /\ connectPending = [s \in ServiceNames |-> 0]
    /\ allPc = "idle"
    /\ allPending = {}
    /\ allError = "none"
    /\ closing = {}
    /\ dallPc = "idle"
    /\ dallKeys = {}
    /\ numSteps = 0
    /\ ret = Ret("init", "none", "none", "none", NoHandle)

\* ------------------------------------------------------------- connect
\* connectToDatabase(s, cfg) called directly, up to its first await
ConnectToDatabase(s) ==
    /\ numSteps < MaxSteps
    /\ numSteps' = numSteps + 1
    /\ IF CanReuse(s)
       THEN /\ ret' = Ret("connect", s, "direct", "resolved", connections[s])
            /\ UNCHANGED connectPending
       ELSE /\ ret' = Ret("connect", s, "direct", "pending", NoHandle)
            /\ connectPending' = [connectPending EXCEPT ![s] = @ + 1]
    /\ UNCHANGED <<connections, handles, allPc, allPending, allError,
                   closing, dallPc, dallKeys>>

\* the call for s made by `via` is suspended in createConnection
Suspended(s, via) ==
    IF via = "direct" THEN connectPending[s] > 0 ELSE s \in allPending

\* the suspended call for s made by `via` leaves createConnection
Resume(s, via) ==
    IF via = "direct"
    THEN /\ connectPending' = [connectPending EXCEPT ![s] = @ - 1]
         /\ allPending' = allPending
    ELSE /\ allPending' = allPending \ {s}
         /\ connectPending' = connectPending

\* createConnection fulfilled: set the entry, attach the listeners, return
CreateSucceeded(s, via) ==
    /\ Suspended(s, via)
    /\ handles' = [handles EXCEPT ![s] =
                     Append(@, [readyState |-> Connected, open |-> TRUE])]
    /\ connections' = Register(s, Len(handles[s]) + 1)
    /\ Resume(s, via)
    /\ allPc' = IF via = "all" THEN AllOnChildFulfilled(allPending \ {s}) ELSE allPc
    /\ ret' = Ret("created", s, via, "resolved", Len(handles[s]) + 1)
    /\ UNCHANGED <<allError, closing, dallPc, dallKeys, numSteps>>

\* mutant of CreateFailed: the catch block retries, as the single-connection
\* class does, and the call stays suspended in createConnection
CreateFailedRetry(s, via) ==
    /\ Suspended(s, via)
    /\ numSteps < MaxSteps
    /\ numSteps' = numSteps + 1
    /\ ret' = Ret("createFailed", s, via, "pending", NoHandle)
    /\ UNCHANGED <<connections, handles, connectPending, allPc, allPending,
                   allError, closing, dallPc, dallKeys>>

\* createConnection rejected: the catch block logs and rethrows
CreateFailed(s, via) ==
    /\ Suspended(s, via)
    /\ numSteps < MaxSteps
    /\ numSteps' = numSteps + 1
    /\ Resume(s, via)
    /\ allPc' = IF via = "all" THEN AllOnChildRejected(s).pc ELSE allPc
    /\ allError' = IF via = "all" THEN AllOnChildRejected(s).err ELSE allError
    /\ ret' = Ret("createFailed", s, via, "rejected", NoHandle)
    /\ UNCHANGED <<connections, handles, closing, dallPc, dallKeys>>

\* connectAllDatabases(): the four connectToDatabase calls start in array
\* order in one run; the ones that reuse a handle are fulfilled at once
ConnectAllDatabases ==
    /\ allPc = "idle"
    /\ allPending' = {s \in ServiceNames : ~CanReuse(s)}
    /\ allPc' = IF allPending' = {} THEN "resolved" ELSE "pending"
    /\ ret' = Ret("connectAll", "none", "all", allPc', NoHandle)
    /\ UNCHANGED <<connections, handles, connectPending, allError,
                   closing, dallPc, dallKeys, numSteps>>

\* getConnection(s)
GetConnection(s) ==
    /\ numSteps < MaxSteps
    /\ numSteps' = numSteps + 1
    /\ ret' = GetResult(s)
    /\ UNCHANGED <<connections, handles, connectPending, allPc, allPending,
                   allError, closing, dallPc, dallKeys>>

\* getConnectionStatus()
GetConnectionStatus ==
    /\ ret' = [Ret("status", "none", "direct", "returned", NoHandle)
                 EXCEPT !.status = Status]
    /\ numSteps < MaxSteps
    /\ numSteps' = numSteps + 1
    /\ UNCHANGED <<connections, handles, connectPending, allPc, allPending,
                   allError, closing, dallPc, dallKeys>>

\* ---------------------------------------------------------- disconnect
\* connection.close() begins on handle h of s: readyState becomes disconnecting
BeginClose(hs, s, h) ==
    IF hs[s][h].open THEN [hs EXCEPT ![s][h].readyState = Disconnecting] ELSE hs

\* connection.close() fulfilled on handle h of s
EndClose(hs, s, h) ==
    [hs EXCEPT ![s][h].readyState = Disconnected, ![s][h].open = FALSE]

\* disconnectDatabase(s) called directly, up to its first await
DisconnectDatabase(s) ==
    /\ numSteps < MaxSteps
    /\ numSteps' = numSteps + 1
    /\ IF Has(s)
       THEN LET c == [svc |-> s, h |-> connections[s], via |-> "direct"] IN
            /\ c \notin closing
            /\ closing' = closing \cup {c}
            /\ handles' = BeginClose(handles, s, c.h)
            /\ ret' = Ret("disconnect", s, "direct", "pending", c.h)
       ELSE /\ ret' = Ret("disconnect", s, "direct", "resolved", NoHandle)
            /\ UNCHANGED <<closing, handles>>
    /\ UNCHANGED <<connections, connectPending, allPc, allPending, allError,
                   dallPc, dallKeys>>

\* how disconnectAllDatabases stands after one of its calls settled with
\* outcome out, leaving rest suspended: a rejection would end Promise.all
\* at once and be caught (logged), a fulfilment ends it when none is left
DallAfter(out, rest) ==
    IF dallPc = "pending" /\ (out = "rejected" \/ DallSettled(rest))
    THEN "resolved"
    ELSE dallPc

\* close() fulfilled: delete the entry of the service name, return
CloseSucceeded(c) ==
    /\ c \in closing
    /\ closing' = closing \ {c}
    /\ handles' = EndClose(handles, c.svc, c.h)
    /\ connections' = Unregister(c.svc)
    /\ dallPc' = IF c.via = "all"
                 THEN DallAfter("resolved", DallChildren(closing'))
                 ELSE dallPc
    /\ ret' = Ret("closed", c.svc, c.via, "resolved", c.h)
    /\ UNCHANGED <<connectPending, allPc, allPending, allError, dallKeys,
                   numSteps>>

\* close() rejected: the catch block logs; the delete was skipped
CloseFailed(c) ==
    /\ c \in closing
    /\ numSteps < MaxSteps
    /\ numSteps' = numSteps + 1
    /\ closing' = closing \ {c}
    /\ \E rs \in CloseErrorStates :
         handles' = IF handles[c.svc][c.h].open
                    THEN [handles EXCEPT ![c.svc][c.h].readyState = rs]
                    ELSE handles
    /\ dallPc' = IF c.via = "all"
                 THEN DallAfter(DisconnectOutcomeOnCloseError, DallChildren(closing'))
                 ELSE dallPc
    /\ ret' = Ret("closeFailed", c.svc, c.via, DisconnectOutcomeOnCloseError, c.h)
    /\ UNCHANGED <<connections, connectPending, allPc, allPending, allError,
                   dallKeys>>

\* disconnectAllDatabases(): one disconnectDatabase call per current key,
\* all started in one run, then awaited together
DisconnectAllDatabases ==
    /\ dallPc = "idle"
    /\ dallKeys' = Keys
    /\ closing' = closing \cup
                    {[svc |-> s, h |-> connections[s], via |-> "all"] : s \in Keys}
    /\ handles' = [s \in ServiceNames |->
                     IF s \in Keys
                     THEN BeginClose(handles, s, connections[s])[s]
                     ELSE handles[s]]
    /\ dallPc' = IF DallSettled(Keys) THEN "resolved" ELSE "pending"
    /\ ret' = Ret("disconnectAll", "none", "all", dallPc', NoHandle)
    /\ UNCHANGED <<connections, connectPending, allPc, allPending, allError,
                   numSteps>>

\* ------------------------------------------------------------- backend
\* mutant of BackendDisconnected: the listener drops the registry entry
BackendDisconnectedPrunes(s, h) ==
    /\ handles[s][h].open
    /\ handles[s][h].readyState = Connected
    /\ numSteps < MaxSteps
    /\ numSteps' = numSteps + 1
    /\ handles' = [handles EXCEPT ![s][h].readyState = Disconnected]
    /\ connections' = Unregister(s)
    /\ ret' = Ret("disconnected", s, "backend", "none", h)
    /\ UNCHANGED <<connectPending, allPc, allPending, allError,
                   closing, dallPc, dallKeys>>

\* the backend lost the link of handle h of s: readyState becomes
\* disconnected and 'disconnected' is emitted; the listener logs
BackendDisconnected(s, h) ==
    /\ handles[s][h].open
    /\ handles[s][h].readyState = Connected
    /\ numSteps < MaxSteps
    /\ numSteps' = numSteps + 1
    /\ handles' = [handles EXCEPT ![s][h].readyState = Disconnected]
    /\ ret' = Ret("disconnected", s, "backend", "none", h)
    /\ UNCHANGED <<connections, connectPending, allPc, allPending, allError,
                   closing, dallPc, dallKeys>>

\* 'error' is emitted on handle h of s; the listener logs and nothing else
BackendError(s, h) ==
    /\ handles[s][h].open
    /\ numSteps < MaxSteps
    /\ numSteps' = numSteps + 1
    /\ ret' = Ret("error", s, "backend", "none", h)
    /\ UNCHANGED <<connections, handles, connectPending, allPc, allPending,
                   allError, closing, dallPc, dallKeys>>

\* the driver reconnects handle h of s by itself: disconnected, connecting,
\* connected; the registry listens to none of it
BackendReconnect(s, h) ==
    /\ handles[s][h].open
    /\ handles[s][h].readyState \in {Disconnected, Connecting}
    /\ handles' = [handles EXCEPT ![s][h].readyState =
                     IF @ = Disconnected THEN Connecting ELSE Connected]
    /\ ret' = Ret("reconnect", s, "backend", "none", h)
    /\ UNCHANGED <<connections, connectPending, allPc, allPending, allError,
                   closing, dallPc, dallKeys, numSteps>>

\* ---------------------------------------------------------------- Next
Vias == {"direct", "all"}

\* the services direct callers name
DirectServices == {"strategy"}

\* the registry runs; the event bus is left as constructed
Next ==
    \/ \E s \in DirectServices : ConnectToDatabase(s)
         /\ UNCHANGED <<busVars, dbVars, srvVars>>
    \/ \E s \in ServiceNames, via \in Vias : CreateSucceeded(s, via)
         /\ UNCHANGED <<busVars, dbVars, srvVars>>
    \/ \E s \in ServiceNames, via \in Vias : CreateFailed(s, via)
         /\ UNCHANGED <<busVars, dbVars, srvVars>>
    \/ ConnectAllDatabases
         /\ UNCHANGED <<busVars, dbVars, srvVars>>
    \/ \E s \in DirectServices \cup {UnknownService} : GetConnection(s)
         /\ UNCHANGED <<busVars, dbVars, srvVars>>
    \/ GetConnectionStatus
         /\ UNCHANGED <<busVars, dbVars, srvVars>>
    \/ \E s \in DirectServices \cup {UnknownService} : DisconnectDatabase(s)
         /\ UNCHANGED <<busVars, dbVars, srvVars>>
    \/ \E c \in closing : CloseSucceeded(c)
         /\ UNCHANGED <<busVars, dbVars, srvVars>>
    \/ \E c \in closing : CloseFailed(c)
         /\ UNCHANGED <<busVars, dbVars, srvVars>>
    \/ DisconnectAllDatabases
         /\ UNCHANGED <<busVars, dbVars, srvVars>>
    \/ \E s \in ServiceNames : \E h \in HandleIds(s) : BackendDisconnected(s, h)
         /\ UNCHANGED <<busVars, dbVars, srvVars>>
    \/ \E s \in ServiceNames : \E h \in HandleIds(s) : BackendError(s, h)
         /\ UNCHANGED <<busVars, dbVars, srvVars>>
    \/ \E s \in ServiceNames : \E h \in HandleIds(s) : BackendReconnect(s, h)
         /\ UNCHANGED <<busVars, dbVars, srvVars>>

Spec == Init /\ [][Next]_vars

\* ================================================================ event bus
\* ------------------------------------------------------------------- JSON
Quote(s) == "\"" \o s \o "\""

\* the members of an object as JSON text; a member whose value is undefined
\* is left out
RECURSIVE Members(_)
Members(f) ==
    IF f = <<>> THEN ""
    ELSE LET rest == Members(Tail(f))
         IN  IF f[1][2] = "undefined" THEN rest
             ELSE Quote(f[1][1]) \o ":" \o f[1][2]
                    \o (IF rest = "" THEN "" ELSE "," \o rest)

\* JSON.stringify(v)
Stringify(v) ==
    CASE v.t = "string" -> Quote(v.s)
      [] v.t = "number" -> v.s
      [] v.t = "null"   -> "null"
      [] v.t = "object" -> "{" \o Members(v.f) \o "}"
      [] OTHER          -> "undefined"

\* the characters of the strings callers publish
Chars(s) ==
    CASE s = "hi"   -> <<"h", "i">>
      [] s = "42"   -> <<"4", "2">>
      [] s = "{bad" -> <<"{", "b", "a", "d">>
      [] OTHER      -> <<>>

\* the key of the i-th character of a string
IndexKey(i) == CASE i = 1 -> "0" [] i = 2 -> "1" [] i = 3 -> "2" [] OTHER -> "3"

\* {...v}: the own enumerable members of v
Spread(v) ==
    CASE v.t = "object" -> v.f
      [] v.t = "string" -> [i \in 1..Len(Chars(v.s)) |->
                              <<IndexKey(i), Quote(Chars(v.s)[i])>>]
      [] OTHER          -> <<>>

HasKey(f, k) == \E i \in 1..Len(f) : f[i][1] = k

\* an object literal's member k: lit: a key keeps its place, a new key is last
SetField(f, k, lit) ==
    IF HasKey(f, k)
    THEN [i \in 1..Len(f) |-> IF f[i][1] = k THEN <<k, lit>> ELSE f[i]]
    ELSE Append(f, <<k, lit>>)

\* v.k as JSON text: undefined when v has no such member
Field(v, k) ==
    IF v.t = "object" /\ HasKey(v.f, k)
    THEN LET i == CHOOSE j \in 1..Len(v.f) : v.f[j][1] = k IN v.f[i][2]
    ELSE "undefined"

\* x || 0
OrZero(lit) ==
    IF lit \in {"undefined", "null", "0", "false", "\"\""} THEN "0" ELSE lit

\* new Date().toISOString() and generateEventId() at the time of the call
Now == "2026-01-01T00:00:00.000Z"

EventId == "event_1767225600000_k3j9x2m1q"

\* mutant of Envelope: the eventId is not injected
EnvelopeNoEventId(data) ==
    Obj(SetField(Spread(data), "timestamp", Quote(Now)))

\* { ...data, timestamp: ..., eventId: ... } of the manager's publish
Envelope(data) ==
    Obj(SetField(SetField(Spread(data), "timestamp", Quote(Now)),
                 "eventId", Quote(EventId)))

\* the payloads callers publish
UserPayload == Obj(<< <<"userId", Quote("u1")>> >>)

Payloads == {Str("hi"), Str("42"), Null, UserPayload}

\* the texts other publishers send
ForeignTexts == {"{bad", "null", Stringify(UserPayload)}

\* the payload of an agent's event: the user, the metrics and the error
AgentPayload ==
    Obj(<< <<"userId", Quote("u1")>>, <<"tokensUsed", "42">>,
           <<"assetsRetrieved", "7">>, <<"error", Quote("timeout")>> >>)

\* the texts other publishers send on the channels of the routing table: two
\* objects, null, and a string sent as it is
RouteTexts == {Stringify(AgentPayload), Stringify(UserPayload), "null", "hi"}

\* the values JSON.parse can return for the texts that reach the subscriber
JsonValues ==
    {Null, Num("42"), UserPayload, AgentPayload} \cup {Envelope(d) : d \in Payloads}

IsJson(text) == \E v \in JsonValues : Stringify(v) = text

\* JSON.parse(text), for a text that parses
Parse(text) == CHOOSE v \in JsonValues : Stringify(v) = text

\* ------------------------------------------------------------- transport
NotConnected == "Event Bus not connected"

\* mutant of Ready: the check `if (!this.isConnected) throw` is missing
ReadyAlways(flag) == TRUE

\* the guard of publish and subscribe, on the value of this.isConnected
Ready(flag) == flag

\* typeof data === 'string' ? data : JSON.stringify(data)
Message(data) == IF data.t = "string" THEN data.s ELSE Stringify(data)

\* eventBus.publish(c, data) up to its await: the command handed to the
\* publisher client, when the guard passes
PublishCall(flag, pq, c, data, via) ==
    IF Ready(flag)
    THEN Append(pq, [channel |-> c, data |-> data, text |-> Message(data), via |-> via])
    ELSE pq

\* eventBus.subscribe(c, cb) up to its await
SubscribeCall(flag, sq, c, cb, via) ==
    IF Ready(flag)
    THEN Append(sq, [kind |-> "sub", channel |-> c, cb |-> cb, via |-> via])
    ELSE sq

\* eventBus.unsubscribe(c) up to its await; there is no guard, and before
\* connect() this.subscriber is null
UnsubscribeCall(sq, c, via) ==
    IF clients["subscriber"] = "null"
    THEN sq
    ELSE Append(sq, [kind |-> "unsub", channel |-> c, cb |-> "none", via |-> via])

\* this.listeners(c), each with its channel
Bound(c) == SelectSeq(listeners, LAMBDA l : l.channel = c)

\* mutant of RemoveAllListeners: the listeners of every channel are removed
RemoveEveryListener(c) == <<>>

\* this.removeAllListeners(c)
RemoveAllListeners(c) == SelectSeq(listeners, LAMBDA l : l.channel # c)

\* the roles from the i-th on whose client is not null
Links(i) == {j \in i..Len(Roles) : clients[Roles[j]] # "null"}

\* disconnect() from the i-th role on: it awaits the next client that is not
\* null, and with none left it sets the flag and returns
DisconnectFrom(i, via) ==
    IF Links(i) = {}
    THEN [pc |-> "resolved", at |-> 0, via |-> via]
    ELSE [pc |-> "pending", at |-> CHOOSE j \in Links(i) : \A k \in Links(i) : j <= k,
          via |-> via]

\* mutant of DispatchValue: a message that does not parse is dropped
DispatchValueDropped(text) == IF IsJson(text) THEN Parse(text) ELSE Undefined

\* the value the 'message' listener emits: the parsed message, or in the
\* catch block the message itself
DispatchValue(text) == IF IsJson(text) THEN Parse(text) ELSE Str(text)

\* --------------------------------------------------------------- manager
\* the bindings of setupGlobalEventHandlers, in the order it makes them, each
\* with what its handler does: forward the payload to a channel, report usage,
\* report an agent error, report user activity, only log, answer a health
\* check, or shut down
Bindings == <<
    [channel |-> "business-strategy.request", handler |-> "handleBusinessStrategyRequest",
     kind |-> "forward", to |-> "internal.business-strategy.process",
     agent |-> "none", action |-> "none", metric |-> "none"],
    [channel |-> "business-strategy.completed", handler |-> "handleBusinessStrategyCompleted",
     kind |-> "completed", to |-> "usage-guardian.update-usage",
     agent |-> "business-strategy", action |-> "generate-strategy", metric |-> "tokensUsed"],
    [channel |-> "business-strategy.error", handler |-> "handleBusinessStrategyError",
     kind |-> "error", to |-> "system.agent-error",
     agent |-> "business-strategy", action |-> "none", metric |-> "none"],
    [channel |-> "asset-curator.request", handler |-> "handleAssetCuratorRequest",
     kind |-> "forward", to |-> "internal.asset-curator.process",
     agent |-> "none", action |-> "none", metric |-> "none"],
    [channel |-> "asset-curator.completed", handler |-> "handleAssetCuratorCompleted",
     kind |-> "completed", to |-> "usage-guardian.update-usage",
     agent |-> "asset-curator", action |-> "curate-assets", metric |-> "assetsRetrieved"],
    [channel |-> "asset-curator.error", handler |-> "handleAssetCuratorError",
     kind |-> "error", to |-> "system.agent-error",
     agent |-> "asset-curator", action |-> "none", metric |-> "none"],
    [channel |-> "usage-guardian.check", handler |-> "handleUsageCheck",
     kind |-> "forward", to |-> "internal.usage-guardian.check",
     agent |-> "none", action |-> "none", metric |-> "none"],
    [channel |-> "usage-guardian.limit-exceeded", handler |-> "handleUsageLimitExceeded",
     kind |-> "forward", to |-> "system.usage-limit-exceeded",
     agent |-> "none", action |-> "none", metric |-> "none"],
    [channel |-> "usage-guardian.usage-updated", handler |-> "handleUsageUpdated",
     kind |-> "log", to |-> "none",
     agent |-> "none", action |-> "none", metric |-> "none"],
    [channel |-> "system.health-check", handler |-> "handleSystemHealthCheck",
     kind |-> "health", to |-> "system.health-status",
     agent |-> "none", action |-> "none", metric |-> "none"],
    [channel |-> "system.shutdown", handler |-> "handleSystemShutdown",
     kind |-> "shutdown", to |-> "none",
     agent |-> "none", action |-> "none", metric |-> "none"],
    [channel |-> "user.login", handler |-> "handleUserLogin",
     kind |-> "activity", to |-> "analytics.user-activity",
     agent |-> "none", action |-> "login", metric |-> "none"],
    [channel |-> "user.logout", handler |-> "handleUserLogout",
     kind |-> "activity", to |-> "analytics.user-activity",
     agent |-> "none", action |-> "logout", metric |-> "none"],
    [channel |-> "user.subscription-changed", handler |-> "handleUserSubscriptionChanged",
     kind |-> "forward", to |-> "usage-guardian.subscription-updated",
     agent |-> "none", action |-> "none", metric |-> "none"] >>

BoundChannels == {Bindings[i].channel : i \in 1..Len(Bindings)}

HandlerNames == {Bindings[i].handler : i \in 1..Len(Bindings)}

\* mutant of Behaviour: the handlers of the completed events publish the
\* usage on the channel of the usage-updated binding
BehaviourLoops(cb) ==
    IF cb \in HandlerNames
    THEN LET b == Bindings[CHOOSE i \in 1..Len(Bindings) : Bindings[i].handler = cb]
         IN  [b EXCEPT !.to = IF @ = "usage-guardian.update-usage"
                              THEN "usage-guardian.usage-updated" ELSE @]
    ELSE [channel |-> "none", handler |-> cb, kind |-> "callback", to |-> "none",
          agent |-> "none", action |-> "none", metric |-> "none"]

\* what the listener cb does; a listener that is no handler of the manager is
\* a callback of a direct caller
Behaviour(cb) ==
    IF cb \in HandlerNames
    THEN Bindings[CHOOSE i \in 1..Len(Bindings) : Bindings[i].handler = cb]
    ELSE [channel |-> "none", handler |-> cb, kind |-> "callback", to |-> "none",
          agent |-> "none", action |-> "none", metric |-> "none"]

\* this.channels.keys()
ChannelKeys == {channels[i].channel : i \in 1..Len(channels)}

\* mutant of MapSet: the registry is a list that every subscribe adds to
MapSetAppends(ok, c, h) ==
    IF ~ok THEN channels ELSE Append(channels, [channel |-> c, handler |-> h])

\* mutant of MapSet: the registry keeps a channel whose subscribe failed
MapSetAlways(ok, c, h) ==
    IF \E i \in 1..Len(channels) : channels[i].channel = c
    THEN [i \in 1..Len(channels) |->
            IF channels[i].channel = c THEN [channel |-> c, handler |-> h]
            ELSE channels[i]]
    ELSE Append(channels, [channel |-> c, handler |-> h])

\* this.channels.set(c, h) of the manager's subscribe, reached only when the
\* awaited eventBus.subscribe fulfilled: a key keeps its place in the map
MapSet(ok, c, h) ==
    IF ~ok THEN channels
    ELSE IF \E i \in 1..Len(channels) : channels[i].channel = c
    THEN [i \in 1..Len(channels) |->
            IF channels[i].channel = c THEN [channel |-> c, handler |-> h]
            ELSE channels[i]]
    ELSE Append(channels, [channel |-> c, handler |-> h])

\* how a failed transport call ends for the caller of the call: the transport
\* rethrows to a direct caller, the manager's catch blocks only log
CaughtOutcome(via) == IF via = "direct" THEN "rejected" ELSE "resolved"

\* mutant of InitializeOnConnectError: the catch block only logs
InitializeSwallows == "resolved"

\* initialize() when the awaited eventBus.connect() rejected: the catch
\* block logs and rethrows
InitializeOnConnectError == "rejected"

\* the handler reads a member of its argument where the argument is null
Throws(cb, v) ==
    /\ Behaviour(cb).kind \in {"completed", "error", "activity"}
    /\ v.t \in {"null", "undefined"}

\* the handler reaches a call of this.publish
Publishes(cb, v) ==
    /\ Behaviour(cb).kind \in {"forward", "completed", "error", "activity", "health"}
    /\ ~Throws(cb, v)

\* the JSON text of an array of strings
RECURSIVE Elements(_)
Elements(q) ==
    IF q = <<>> THEN ""
    ELSE Quote(q[1]) \o (IF Len(q) > 1 THEN "," ELSE "") \o Elements(Tail(q))

BoolText(b) == IF b THEN "true" ELSE "false"

\* performHealthCheck()
HealthStatus ==
    Obj(<< <<"status", Quote("healthy")>>,
           <<"timestamp", Quote(Now)>>,
           <<"eventBus", Stringify(Obj(<<
                <<"isConnected", BoolText(isConnected)>>,
                <<"publisherReady", BoolText(clients["publisher"] = "ready")>>,
                <<"subscriberReady", BoolText(clients["subscriber"] = "ready")>>,
                <<"clientReady", BoolText(clients["redisClient"] = "ready")>> >>))>>,
           <<"channels",
             "[" \o Elements([i \in 1..Len(channels) |-> channels[i].channel]) \o "]">> >>)

\* the transport's getConnectionStatus()
ConnectionStatus ==
    [isConnected |-> isConnected,
     publisherReady |-> clients["publisher"] = "ready",
     subscriberReady |-> clients["subscriber"] = "ready",
     clientReady |-> clients["redisClient"] = "ready"]

\* the manager's getStatus()
GetStatus ==
    [isInitialized |-> isInitialized,
     channelCount |-> Len(channels),
     channels |-> [i \in 1..Len(channels) |-> channels[i].channel],
     eventBusStatus |-> ConnectionStatus]

\* the argument of the handler's this.publish
HandlerPayload(cb, v) ==
    LET b == Behaviour(cb)
    IN  CASE b.kind = "forward" -> v
          [] b.kind = "completed" ->
               Obj(<< <<"userId", Field(v, "userId")>>,
                      <<"agentType", Quote(b.agent)>>,
                      <<"action", Quote(b.action)>>,
                      <<b.metric, OrZero(Field(v, b.metric))>> >>)
          [] b.kind = "error" ->
               Obj(<< <<"agent", Quote(b.agent)>>,
                      <<"error", Field(v, "error")>>,
                      <<"userId", Field(v, "userId")>> >>)
          [] b.kind = "activity" ->
               Obj(<< <<"userId", Field(v, "userId")>>,
                      <<"action", Quote(b.action)>>,
                      <<"timestamp", Quote(Now)>> >>)
          [] b.kind = "health" -> HealthStatus
          [] OTHER -> Undefined

\* the manager's publish(c, data) up to its await: the envelope handed to
\* the transport
ManagerPublishCall(flag, pq, c, data) ==
    PublishCall(flag, pq, c, Envelope(data), "manager")

\* this.emit(c, v): the listeners ls run in order, each up to its first
\* await; the result is the publisher's queue after them
RECURSIVE Emit(_, _, _)
Emit(ls, v, pq) ==
    IF ls = <<>> THEN pq
    ELSE Emit(Tail(ls), v,
              IF Publishes(ls[1].cb, v)
              THEN ManagerPublishCall(isConnected, pq, Behaviour(ls[1].cb).to,
                                      HandlerPayload(ls[1].cb, v))
              ELSE pq)

\* setupGlobalEventHandlers(): the subscriber's queue after the manager's
\* subscribe was called for the bindings from the i-th on
RECURSIVE SetupGlobalEventHandlers(_, _, _)
SetupGlobalEventHandlers(i, flag, sq) ==
    IF i > Len(Bindings) THEN sq
    ELSE SetupGlobalEventHandlers(i + 1, flag,
             SubscribeCall(flag, sq, Bindings[i].channel, Bindings[i].handler, "manager"))

\* mutant of Established: the promise of connect() fulfils with the first client
EstablishedAny(cl) == \E q \in RoleNames : cl[q] = "ready"

\* Promise.all over the connect() of the three clients fulfils: every client
\* is connected
Established(cl) == \A q \in RoleNames : cl[q] = "ready"

\* ------------------------------------------------------- event bus: runs
\* nothing runs in a process that has exited
Alive == process # "exited"

\* a run counted against the bound of the specification
Step == busSteps' = busSteps + 1

\* connect() up to its await: the three clients are created and connect
ConnectCall ==
    /\ clients' = [r \in RoleNames |-> "connecting"]
    /\ connectPc' = "pending"

\* the transport's connect() called directly
Connect ==
    /\ Alive
    /\ connectPc = "idle"
    /\ initPc = "idle"
    /\ ConnectCall
    /\ busRet' = BusRet("connect", "none", "direct", "pending")
    /\ UNCHANGED <<isConnected, attached, backendSubs, listeners, subQueue, pubQueue,
                   inbox, disc, channels, isInitialized, initPc, shutdown, process,
                   busSteps>>

\* the manager's initialize() up to its await of eventBus.connect()
Initialize ==
    /\ Alive
    /\ initPc = "idle"
    /\ connectPc = "idle"
    /\ ConnectCall
    /\ initPc' = "connecting"
    /\ busRet' = BusRet("initialize", "none", "manager", "pending")
    /\ UNCHANGED <<isConnected, attached, backendSubs, listeners, subQueue, pubQueue,
                   inbox, disc, channels, isInitialized, shutdown, process, busSteps>>

\* the connect() of the client of role r fulfilled.  With the last of the
\* three, Promise.all fulfils: connect() sets the flag, puts the listeners on
\* the clients and returns, and an initialize() that awaited it binds the
\* handlers and sets its own flag
ClientConnected(r) ==
    /\ Alive
    /\ clients[r] = "connecting"
    /\ clients' = [clients EXCEPT ![r] = "ready"]
    /\ IF connectPc = "pending" /\ Established(clients')
       THEN /\ isConnected' = TRUE
            /\ attached' = TRUE
            /\ connectPc' = "resolved"
            /\ IF initPc = "connecting"
               THEN /\ subQueue' = SetupGlobalEventHandlers(1, isConnected', subQueue)
                    /\ isInitialized' = TRUE
                    /\ initPc' = "resolved"
                    /\ busRet' = BusRet("initialized", "none", "manager", "resolved")
               ELSE /\ UNCHANGED <<subQueue, isInitialized, initPc>>
                    /\ busRet' = BusRet("connected", "none", "direct", "resolved")
       ELSE /\ UNCHANGED <<isConnected, attached, connectPc, subQueue, isInitialized,
                           initPc>>
            /\ busRet' = BusRet("linked", r, "backend", "none")
    /\ UNCHANGED <<backendSubs, listeners, pubQueue, inbox, disc, channels, shutdown,
                   process, busSteps>>

\* the connect() of the client of role r rejected.  The first rejection
\* rejects Promise.all: connect() clears the flag and rethrows, and an
\* initialize() that awaited it logs and rethrows
ClientConnectFailed(r) ==
    /\ Alive
    /\ clients[r] = "connecting"
    /\ Step
    /\ clients' = [clients EXCEPT ![r] = "failed"]
    /\ IF connectPc = "pending"
       THEN /\ isConnected' = FALSE
            /\ connectPc' = "rejected"
            /\ initPc' = IF initPc = "connecting" THEN InitializeOnConnectError
                         ELSE initPc
            /\ busRet' = [BusRet(IF initPc = "connecting" THEN "initialized"
                                 ELSE "connected", "none",
                                 IF initPc = "connecting" THEN "manager" ELSE "direct",
                                 "rejected")
                            EXCEPT !.err = "ConnectError"]
       ELSE /\ UNCHANGED <<isConnected, connectPc, initPc>>
            /\ busRet' = BusRet("linkFailed", r, "backend", "none")
    /\ UNCHANGED <<attached, backendSubs, listeners, subQueue, pubQueue, inbox, disc,
                   channels, isInitialized, shutdown, process>>

\* the transport's publish(c, data) called directly, up to its await
Publish(c, data) ==
    /\ Alive
    /\ Step
    /\ pubQueue' = PublishCall(isConnected, pubQueue, c, data, "direct")
    /\ busRet' = [BusRet("publish", c, "direct",
                         IF Ready(isConnected) THEN "pending" ELSE "rejected")
                    EXCEPT !.err = IF Ready(isConnected) THEN "none" ELSE NotConnected,
                           !.sent = data]
    /\ UNCHANGED <<isConnected, clients, attached, connectPc, backendSubs, listeners,
                   subQueue, inbox, disc, channels, isInitialized, initPc, shutdown,
                   process>>

\* the manager's publish(c, data) called by its users, up to its await; the
\* transport's NotConnected is caught and logged
ManagerPublish(c, data) ==
    /\ Alive
    /\ Step
    /\ pubQueue' = ManagerPublishCall(isConnected, pubQueue, c, data)
    /\ busRet' = [BusRet("publish", c, "manager",
                         IF Ready(isConnected) THEN "pending"
                         ELSE CaughtOutcome("manager"))
                    EXCEPT !.err = IF Ready(isConnected) THEN "none" ELSE NotConnected,
                           !.sent = data]
    /\ UNCHANGED <<isConnected, clients, attached, connectPc, backendSubs, listeners,
                   subQueue, inbox, disc, channels, isInitialized, initPc, shutdown,
                   process>>

\* the publisher's publish fulfilled: the server has passed the message on to
\* the subscriber client when that is subscribed to the channel
PublishSettled ==
    /\ Alive
    /\ pubQueue # <<>>
    /\ LET q == Head(pubQueue)
       IN  /\ pubQueue' = Tail(pubQueue)
           /\ inbox' = IF q.channel \in backendSubs
                       THEN Append(inbox, [channel |-> q.channel, text |-> q.text,
                                           data |-> q.data])
                       ELSE inbox
           /\ busRet' = [BusRet("published", q.channel, q.via, "resolved")
                           EXCEPT !.sent = q.data]
    /\ UNCHANGED <<isConnected, clients, attached, connectPc, backendSubs, listeners,
                   subQueue, disc, channels, isInitialized, initPc, shutdown, process,
                   busSteps>>

\* the publisher's publish rejected: the transport logs and rethrows
PublishFailed ==
    /\ Alive
    /\ pubQueue # <<>>
    /\ Step
    /\ LET q == Head(pubQueue)
       IN  /\ pubQueue' = Tail(pubQueue)
           /\ busRet' = [BusRet("published", q.channel, q.via, CaughtOutcome(q.via))
                           EXCEPT !.err = "PublishError", !.sent = q.data]
    /\ UNCHANGED <<isConnected, clients, attached, connectPc, backendSubs, listeners,
                   subQueue, inbox, disc, channels, isInitialized, initPc, shutdown,
                   process>>

\* the transport's subscribe(c, cb) called directly, up to its await
Subscribe(c, cb) ==
    /\ Alive
    /\ Step
    /\ subQueue' = SubscribeCall(isConnected, subQueue, c, cb, "direct")
    /\ busRet' = [BusRet("subscribe", c, "direct",
                         IF Ready(isConnected) THEN "pending" ELSE "rejected")
                    EXCEPT !.err = IF Ready(isConnected) THEN "none" ELSE NotConnected]
    /\ UNCHANGED <<isConnected, clients, attached, connectPc, backendSubs, listeners,
                   pubQueue, inbox, disc, channels, isInitialized, initPc, shutdown,
                   process>>

\* the manager's subscribe(c, h) called by its users, up to its await; the
\* transport's NotConnected is caught and logged, and the registry is not
\* touched
ManagerSubscribe(c, h) ==
    /\ Alive
    /\ Step
    /\ subQueue' = SubscribeCall(isConnected, subQueue, c, h, "manager")
    /\ busRet' = [BusRet("subscribe", c, "manager",
                         IF Ready(isConnected) THEN "pending"
                         ELSE CaughtOutcome("manager"))
                    EXCEPT !.err = IF Ready(isConnected) THEN "none" ELSE NotConnected]
    /\ UNCHANGED <<isConnected, clients, attached, connectPc, backendSubs, listeners,
                   pubQueue, inbox, disc, channels, isInitialized, initPc, shutdown,
                   process>>

\* the subscriber's subscribe fulfilled: the transport binds the callback,
\* and the manager's subscribe that awaited it sets the channel's entry
SubscribeSettled ==
    /\ Alive
    /\ subQueue # <<>>
    /\ Head(subQueue).kind = "sub"
    /\ LET q == Head(subQueue)
       IN  /\ subQueue' = Tail(subQueue)
           /\ backendSubs' = backendSubs \cup {q.channel}
           /\ listeners' = Append(listeners, [channel |-> q.channel, cb |-> q.cb])
           /\ channels' = IF q.via = "manager" THEN MapSet(TRUE, q.channel, q.cb)
                          ELSE channels
           /\ busRet' = BusRet("subscribed", q.channel, q.via, "resolved")
    /\ UNCHANGED <<isConnected, clients, attached, connectPc, pubQueue, inbox, disc,
                   isInitialized, initPc, shutdown, process, busSteps>>

\* the subscriber's subscribe rejected: the transport logs and rethrows, the
\* manager's subscribe logs
SubscribeFailed ==
    /\ Alive
    /\ subQueue # <<>>
    /\ Head(subQueue).kind = "sub"
    /\ Step
    /\ LET q == Head(subQueue)
       IN  /\ subQueue' = Tail(subQueue)
           /\ channels' = IF q.via = "manager" THEN MapSet(FALSE, q.channel, q.cb)
                          ELSE channels
           /\ busRet' = [BusRet("subscribed", q.channel, q.via, CaughtOutcome(q.via))
                           EXCEPT !.err = "SubscribeError"]
    /\ UNCHANGED <<isConnected, clients, attached, connectPc, backendSubs, listeners,
                   pubQueue, inbox, disc, isInitialized, initPc, shutdown, process>>

\* the transport's unsubscribe(c) called directly, up to its await
Unsubscribe(c) ==
    /\ Alive
    /\ Step
    /\ subQueue' = UnsubscribeCall(subQueue, c, "direct")
    /\ busRet' = [BusRet("unsubscribe", c, "direct",
                         IF clients["subscriber"] = "null" THEN "rejected"
                         ELSE "pending")
                    EXCEPT !.err = IF clients["subscriber"] = "null" THEN "TypeError"
                                   ELSE "none"]
    /\ UNCHANGED <<isConnected, clients, attached, connectPc, backendSubs, listeners,
                   pubQueue, inbox, disc, channels, isInitialized, initPc, shutdown,
                   process>>

\* gracefulShutdown() with its loop at the i-th key of this.channels and sq
\* the subscriber's queue: it awaits the unsubscribe of that key, and after
\* the last key the transport's disconnect()
ShutdownAt(i, sq) ==
    IF i <= Len(channels)
    THEN /\ subQueue' = UnsubscribeCall(sq, channels[i].channel, "shutdown")
         /\ shutdown' = IF clients["subscriber"] = "null"
                        THEN [pc |-> "done", idx |-> i, err |-> "TypeError"]
                        ELSE [pc |-> "unsubscribing", idx |-> i, err |-> "none"]
         /\ UNCHANGED <<disc, isConnected>>
    ELSE /\ subQueue' = sq
         /\ disc' = DisconnectFrom(1, "shutdown")
         /\ isConnected' = IF disc'.pc = "resolved" THEN FALSE ELSE isConnected
         /\ shutdown' = [pc |-> IF disc'.pc = "resolved" THEN "done"
                                ELSE "disconnecting",
                         idx |-> i, err |-> "none"]

\* the subscriber's unsubscribe fulfilled: the transport removes the
\* channel's listeners, and a gracefulShutdown() that awaited it goes on
\* with the next key
UnsubscribeSettled ==
    /\ Alive
    /\ subQueue # <<>>
    /\ Head(subQueue).kind = "unsub"
    /\ LET q == Head(subQueue)
       IN  /\ backendSubs' = backendSubs \ {q.channel}
           /\ listeners' = RemoveAllListeners(q.channel)
           /\ IF q.via = "shutdown"
              THEN ShutdownAt(shutdown.idx + 1, Tail(subQueue))
              ELSE /\ subQueue' = Tail(subQueue)
                   /\ UNCHANGED <<shutdown, disc, isConnected>>
           /\ busRet' = BusRet("unsubscribed", q.channel, q.via, "resolved")
    /\ UNCHANGED <<clients, attached, connectPc, pubQueue, inbox, channels,
                   isInitialized, initPc, process, busSteps>>

\* the subscriber's unsubscribe rejected: the transport logs and rethrows; in
\* gracefulShutdown() that leaves the loop for the catch block
UnsubscribeFailed ==
    /\ Alive
    /\ subQueue # <<>>
    /\ Head(subQueue).kind = "unsub"
    /\ Step
    /\ LET q == Head(subQueue)
       IN  /\ subQueue' = Tail(subQueue)
           /\ shutdown' = IF q.via = "shutdown"
                          THEN [shutdown EXCEPT !.pc = "done", !.err = "UnsubscribeError"]
                          ELSE shutdown
           /\ busRet' = [BusRet("unsubscribed", q.channel, q.via, CaughtOutcome(q.via))
                           EXCEPT !.err = "UnsubscribeError"]
    /\ UNCHANGED <<isConnected, clients, attached, connectPc, backendSubs, listeners,
                   pubQueue, inbox, disc, channels, isInitialized, initPc, process>>

\* the manager's gracefulShutdown() called by the server, up to its first await
GracefulShutdown ==
    /\ Alive
    /\ shutdown.pc = "idle"
    /\ Step
    /\ ShutdownAt(1, subQueue)
    /\ busRet' = BusRet("gracefulShutdown", "none", "manager",
                        IF shutdown'.pc = "done" THEN "resolved" ELSE "pending")
    /\ UNCHANGED <<clients, attached, connectPc, backendSubs, listeners, pubQueue,
                   inbox, channels, isInitialized, initPc, process>>

\* the transport's disconnect() called directly, up to its first await
Disconnect ==
    /\ Alive
    /\ disc.pc # "pending"
    /\ Step
    /\ disc' = DisconnectFrom(1, "direct")
    /\ isConnected' = IF disc'.pc = "resolved" THEN FALSE ELSE isConnected
    /\ busRet' = BusRet("disconnect", "none", "direct", disc'.pc)
    /\ UNCHANGED <<clients, attached, connectPc, backendSubs, listeners, subQueue,
                   pubQueue, inbox, channels, isInitialized, initPc, shutdown, process>>

\* the awaited client's disconnect fulfilled: disconnect() goes on with the
\* next client, and after the last it clears the flag and returns
DisconnectSettled ==
    /\ Alive
    /\ disc.pc = "pending"
    /\ clients' = [clients EXCEPT ![Roles[disc.at]] = "closed"]
    /\ disc' = DisconnectFrom(disc.at + 1, disc.via)
    /\ isConnected' = IF disc'.pc = "resolved" THEN FALSE ELSE isConnected
    /\ shutdown' = IF disc.via = "shutdown" /\ disc'.pc = "resolved"
                   THEN [shutdown EXCEPT !.pc = "done"]
                   ELSE shutdown
    /\ busRet' = BusRet("disconnected", Roles[disc.at], disc.via, disc'.pc)
    /\ UNCHANGED <<attached, connectPc, backendSubs, listeners, subQueue, pubQueue,
                   inbox, channels, isInitialized, initPc, process, busSteps>>

\* the awaited client's disconnect rejected: disconnect() logs and rethrows,
\* gracefulShutdown() logs
DisconnectFailed ==
    /\ Alive
    /\ disc.pc = "pending"
    /\ Step
    /\ disc' = [disc EXCEPT !.pc = "rejected"]
    /\ shutdown' = IF disc.via = "shutdown"
                   THEN [shutdown EXCEPT !.pc = "done", !.err = "DisconnectError"]
                   ELSE shutdown
    /\ busRet' = [BusRet("disconnected", Roles[disc.at], disc.via,
                         CaughtOutcome(disc.via))
                    EXCEPT !.err = "DisconnectError"]
    /\ UNCHANGED <<isConnected, clients, attached, connectPc, backendSubs, listeners,
                   subQueue, pubQueue, inbox, channels, isInitialized, initPc, process>>

\* the client of role r emits 'error'
ClientError(r) ==
    /\ Alive
    /\ attached
    /\ clients[r] = "ready"
    /\ Step
    /\ clients' = [clients EXCEPT ![r] = "failed"]
    /\ isConnected' = FALSE
    /\ busRet' = BusRet("error", r, "backend", "none")
    /\ UNCHANGED <<attached, connectPc, backendSubs, listeners, subQueue, pubQueue,
                   inbox, disc, channels, isInitialized, initPc, shutdown, process>>

\* the client of role r has reconnected and emits 'ready'
ClientReady(r) ==
    /\ Alive
    /\ attached
    /\ clients[r] = "failed"
    /\ Step
    /\ clients' = [clients EXCEPT ![r] = "ready"]
    /\ isConnected' = TRUE
    /\ busRet' = BusRet("ready", r, "backend", "none")
    /\ UNCHANGED <<attached, connectPc, backendSubs, listeners, subQueue, pubQueue,
                   inbox, disc, channels, isInitialized, initPc, shutdown, process>>

\* the 'message' listener of the subscriber for the message text on channel
\* c, which was published here as `sent`: the value is emitted and each
\* listener of c runs up to its first await.  The promise a handler returns
\* is dropped by emit; when it rejects, the process's 'unhandledRejection'
\* listener starts the server's shutdown with exit code 1
Dispatch(c, text, sent) ==
    LET v == DispatchValue(text)
        ls == Bound(c)
        rejected == \E i \in 1..Len(ls) : Throws(ls[i].cb, v)
        stops == \E i \in 1..Len(ls) : Behaviour(ls[i].cb).kind = "shutdown"
    IN  /\ pubQueue' = Emit(ls, v, pubQueue)
        /\ process' = IF rejected /\ process = "running" THEN "exiting" ELSE process
        /\ IF stops /\ shutdown.pc = "idle"
           THEN ShutdownAt(1, subQueue)
           ELSE UNCHANGED <<subQueue, shutdown, disc, isConnected>>
        /\ busRet' = [BusRet("deliver", c, "backend", "returned")
                        EXCEPT !.err = IF IsJson(text) THEN "none" ELSE "SyntaxError",
                               !.text = text, !.value = v, !.sent = sent,
                               !.invoked = ls,
                               !.unhandled = rejected]

\* a message of another publisher arrives on a subscribed channel
OnMessage(c, text) ==
    /\ Alive
    /\ attached
    /\ clients["subscriber"] = "ready"
    /\ c \in backendSubs
    /\ Step
    /\ Dispatch(c, text, Undefined)
    /\ UNCHANGED <<clients, attached, connectPc, backendSubs, listeners, inbox,
                   channels, isInitialized, initPc>>

\* a message published here arrives at the subscriber
Deliver ==
    /\ Alive
    /\ attached
    /\ clients["subscriber"] = "ready"
    /\ inbox # <<>>
    /\ inbox' = Tail(inbox)
    /\ Dispatch(Head(inbox).channel, Head(inbox).text, Head(inbox).data)
    /\ UNCHANGED <<clients, attached, connectPc, backendSubs, listeners, channels,
                   isInitialized, initPc, busSteps>>

\* the server's gracefulShutdown(1) ends in process.exit on every path
ProcessExit ==
    /\ process = "exiting"
    /\ process' = "exited"
    /\ busRet' = BusRet("exit", "none", "server", "none")
    /\ UNCHANGED <<isConnected, clients, attached, connectPc, backendSubs, listeners,
                   subQueue, pubQueue, inbox, disc, channels, isInitialized, initPc,
                   shutdown, busSteps>>

\* --------------------------------------------------- event bus: SpecBus
\* the channels and callbacks direct callers of the transport name
BusChannels == {"user.login", "user.logout"}

Callbacks == {"onLogin", "onLogout"}

\* a counted run fits the bound
BusBudget == busSteps < MaxBusSteps

\* the transport under direct callers; the registry is left as constructed
BusNext ==
    \/ Connect
         /\ UNCHANGED <<regVars, dbVars, srvVars>>
    \/ \E r \in RoleNames : ClientConnected(r)
         /\ UNCHANGED <<regVars, dbVars, srvVars>>
    \/ BusBudget
         /\ \E r \in RoleNames : ClientConnectFailed(r)
         /\ UNCHANGED <<regVars, dbVars, srvVars>>
    \/ BusBudget
         /\ \E c \in BusChannels, d \in Payloads : Publish(c, d)
         /\ UNCHANGED <<regVars, dbVars, srvVars>>
    \/ PublishSettled
         /\ UNCHANGED <<regVars, dbVars, srvVars>>
    \/ BusBudget
         /\ PublishFailed
         /\ UNCHANGED <<regVars, dbVars, srvVars>>
    \/ BusBudget
         /\ \E c \in BusChannels, cb \in Callbacks : Subscribe(c, cb)
         /\ UNCHANGED <<regVars, dbVars, srvVars>>
    \/ SubscribeSettled
         /\ UNCHANGED <<regVars, dbVars, srvVars>>
    \/ BusBudget
         /\ SubscribeFailed
         /\ UNCHANGED <<regVars, dbVars, srvVars>>
    \/ BusBudget
         /\ \E c \in BusChannels : Unsubscribe(c)
         /\ UNCHANGED <<regVars, dbVars, srvVars>>
    \/ UnsubscribeSettled
         /\ UNCHANGED <<regVars, dbVars, srvVars>>
    \/ BusBudget
         /\ UnsubscribeFailed
         /\ UNCHANGED <<regVars, dbVars, srvVars>>
    \/ BusBudget
         /\ Disconnect
         /\ UNCHANGED <<regVars, dbVars, srvVars>>
    \/ DisconnectSettled
         /\ UNCHANGED <<regVars, dbVars, srvVars>>
    \/ BusBudget
         /\ DisconnectFailed
         /\ UNCHANGED <<regVars, dbVars, srvVars>>
    \/ BusBudget
         /\ \E r \in RoleNames : ClientError(r)
         /\ UNCHANGED <<regVars, dbVars, srvVars>>
    \/ BusBudget
         /\ \E r \in RoleNames : ClientReady(r)
         /\ UNCHANGED <<regVars, dbVars, srvVars>>
    \/ BusBudget
         /\ \E c \in BusChannels, text \in ForeignTexts : OnMessage(c, text)
         /\ UNCHANGED <<regVars, dbVars, srvVars>>
    \/ Deliver
         /\ UNCHANGED <<regVars, dbVars, srvVars>>

SpecBus == Init /\ [][BusNext]_vars

\* --------------------------------------------------- event bus: SpecMgr
\* the channels the manager's users publish to: one with a binding, one
\* without
ManagerChannels == {"user.login", "notifications.email"}

\* the channels of the messages other publishers send to the manager: one
\* per kind of handler that forwards, reports usage, reports activity, only
\* logs or shuts down
MessageChannels == {"business-strategy.request", "business-strategy.completed",
                    "usage-guardian.usage-updated", "system.shutdown", "user.login"}

MgrBudget == busSteps < MaxMgrSteps

\* the manager over the transport; the registry is left as constructed
MgrNext ==
    \/ Initialize
         /\ UNCHANGED <<regVars, dbVars, srvVars>>
    \/ \E r \in RoleNames : ClientConnected(r)
         /\ UNCHANGED <<regVars, dbVars, srvVars>>
    \/ MgrBudget
         /\ \E r \in RoleNames : ClientConnectFailed(r)
         /\ UNCHANGED <<regVars, dbVars, srvVars>>
    \/ MgrBudget
         /\ \E c \in ManagerChannels, d \in Payloads : ManagerPublish(c, d)
         /\ UNCHANGED <<regVars, dbVars, srvVars>>
    \/ PublishSettled
         /\ UNCHANGED <<regVars, dbVars, srvVars>>
    \/ MgrBudget
         /\ PublishFailed
         /\ UNCHANGED <<regVars, dbVars, srvVars>>
    \/ SubscribeSettled
         /\ UNCHANGED <<regVars, dbVars, srvVars>>
    \/ MgrBudget
         /\ SubscribeFailed
         /\ UNCHANGED <<regVars, dbVars, srvVars>>
    \/ UnsubscribeSettled
         /\ UNCHANGED <<regVars, dbVars, srvVars>>
    \/ MgrBudget
         /\ UnsubscribeFailed
         /\ UNCHANGED <<regVars, dbVars, srvVars>>
    \/ MgrBudget
         /\ GracefulShutdown
         /\ UNCHANGED <<regVars, dbVars, srvVars>>
    \/ DisconnectSettled
         /\ UNCHANGED <<regVars, dbVars, srvVars>>
    \/ MgrBudget
         /\ DisconnectFailed
         /\ UNCHANGED <<regVars, dbVars, srvVars>>
    \/ MgrBudget
         /\ \E r \in RoleNames : ClientError(r)
         /\ UNCHANGED <<regVars, dbVars, srvVars>>
    \/ MgrBudget
         /\ \E r \in RoleNames : ClientReady(r)
         /\ UNCHANGED <<regVars, dbVars, srvVars>>
    \/ MgrBudget
         /\ \E c \in MessageChannels, text \in ForeignTexts : OnMessage(c, text)
         /\ UNCHANGED <<regVars, dbVars, srvVars>>
    \/ Deliver
         /\ UNCHANGED <<regVars, dbVars, srvVars>>
    \/ ProcessExit
         /\ UNCHANGED <<regVars, dbVars, srvVars>>

SpecMgr == Init /\ [][MgrNext]_vars

\* --------------------------------------------------- event bus: SpecSubs
\* the manager's registry under users that subscribe handlers of their own,
\* on a channel with a binding and on one without, while initialize() binds
\* the handlers of the manager
SubsNext ==
    \/ Initialize
         /\ UNCHANGED <<regVars, dbVars, srvVars>>
    \/ \E r \in RoleNames : ClientConnected(r)
         /\ UNCHANGED <<regVars, dbVars, srvVars>>
    \/ MgrBudget
         /\ \E c \in ManagerChannels, h \in Callbacks : ManagerSubscribe(c, h)
         /\ UNCHANGED <<regVars, dbVars, srvVars>>
    \/ SubscribeSettled
         /\ UNCHANGED <<regVars, dbVars, srvVars>>
    \/ MgrBudget
         /\ SubscribeFailed
         /\ UNCHANGED <<regVars, dbVars, srvVars>>

SpecSubs == Init /\ [][SubsNext]_vars

\* -------------------------------------------------- event bus: SpecRoute
RouteBudget == busSteps < MaxRouteSteps

\* the routing table: the manager is initialized and events of other
\* publishers arrive on the channels of its bindings
RouteNext ==
    \/ Initialize
         /\ UNCHANGED <<regVars, dbVars, srvVars>>
    \/ \E r \in RoleNames : ClientConnected(r)
         /\ UNCHANGED <<regVars, dbVars, srvVars>>
    \/ SubscribeSettled
         /\ UNCHANGED <<regVars, dbVars, srvVars>>
    \/ RouteBudget
         /\ \E c \in BoundChannels, text \in RouteTexts : OnMessage(c, text)
         /\ UNCHANGED <<regVars, dbVars, srvVars>>
    \/ PublishSettled
         /\ UNCHANGED <<regVars, dbVars, srvVars>>
    \/ UnsubscribeSettled
         /\ UNCHANGED <<regVars, dbVars, srvVars>>
    \/ DisconnectSettled
         /\ UNCHANGED <<regVars, dbVars, srvVars>>
    \/ ProcessExit
         /\ UNCHANGED <<regVars, dbVars, srvVars>>

SpecRoute == Init /\ [][RouteNext]_vars

\* the routing table with the publishes that were issued carried out
SpecRouteLive ==
    SpecRoute /\ WF_vars(PublishSettled /\ UNCHANGED <<regVars, dbVars, srvVars>>)

\* ------------------------------------------------- event bus: SpecHealth
\* the health check: the manager is initialized and health-check events
\* arrive, while a database of the registry connects and loses its
\* connection
HealthNext ==
    \/ Initialize
         /\ UNCHANGED <<regVars, dbVars, srvVars>>
    \/ \E r \in RoleNames : ClientConnected(r)
         /\ UNCHANGED <<regVars, dbVars, srvVars>>
    \/ SubscribeSettled
         /\ UNCHANGED <<regVars, dbVars, srvVars>>
    \/ RouteBudget
         /\ \E text \in RouteTexts : OnMessage("system.health-check", text)
         /\ UNCHANGED <<regVars, dbVars, srvVars>>
    \/ PublishSettled
         /\ UNCHANGED <<regVars, dbVars, srvVars>>
    \/ \E s \in DirectServices : ConnectToDatabase(s)
         /\ UNCHANGED <<busVars, dbVars, srvVars>>
    \/ \E s \in DirectServices : CreateSucceeded(s, "direct")
         /\ UNCHANGED <<busVars, dbVars, srvVars>>
    \/ \E s \in DirectServices : \E h \in HandleIds(s) : BackendDisconnected(s, h)
         /\ UNCHANGED <<busVars, dbVars, srvVars>>

SpecHealth == Init /\ [][HealthNext]_vars

\* ======================================================= single connection
\* this.maxRetries
MaxRetries == 5

\* the base of the delays, in ms
BaseDelay == 5000

\* mutant of RetryAllowed: the catch block retries without a cap
RetryAlways(n) == TRUE

\* this.connectionRetries < this.maxRetries, the test of the catch block of
\* connect() and of the 'disconnected' listener, on the value of the counter
RetryAllowed(n) == n < MaxRetries

\* the test of connect() for the connection it can return at once
Reusable == dbIsConnected /\ dbConnection # "null"

\* the calls in flight without the i-th
Without(q, i) == SubSeq(q, 1, i - 1) \o SubSeq(q, i + 1, Len(q))

\* the calls in flight when this.connectionRetries is set back to 0: a call
\* that made retries the counter no longer holds is marked
AfterReset(q) ==
    IF connectionRetries = 0 THEN q
    ELSE [j \in 1..Len(q) |-> [q[j] EXCEPT !.clean = FALSE]]

\* connect() up to its await: it returns the connection, or it calls
\* mongoose.connect
StartConnect(via) ==
    IF Reusable THEN dbCalls
    ELSE Append(dbCalls, [via |-> via, pc |-> "connecting", retries |-> 0,
                          clean |-> TRUE])

\* the connect() of the call c returned: an initialize() that awaited it
\* goes on with setupEventHandlers() and returns
Fulfil(c) ==
    /\ dbInitPc' = IF c.via = "initialize" THEN "resolved" ELSE dbInitPc
    /\ dbAttached' = (dbAttached \/ c.via = "initialize")

\* a run counted against the bound of the specification
DbStep == dbSteps' = dbSteps + 1

\* connect() called directly, up to its await
DbConnect ==
    /\ DbStep
    /\ dbCalls' = StartConnect("direct")
    /\ dbRet' = DbRet("connect", "direct", IF Reusable THEN "resolved" ELSE "pending")
    /\ UNCHANGED <<dbConnection, dbIsConnected, connectionRetries, dbTimers,
                   dbAttached, dbInitPc>>

\* initialize() up to its await of connect()
DbInitialize ==
    /\ dbInitPc = "idle"
    /\ dbCalls' = StartConnect("initialize")
    /\ dbInitPc' = IF Reusable THEN "resolved" ELSE "pending"
    /\ dbAttached' = (dbAttached \/ Reusable)
    /\ dbRet' = DbRet("initialize", "initialize",
                      IF Reusable THEN "resolved" ELSE "pending")
    /\ UNCHANGED <<dbConnection, dbIsConnected, connectionRetries, dbTimers, dbSteps>>

\* the mongoose.connect of the i-th call fulfilled: the connection and the
\* flag are set, the counter goes back to 0 and the call returns
ConnectFulfilled(i) ==
    /\ dbCalls[i].pc = "connecting"
    /\ dbConnection' = "set"
    /\ dbIsConnected' = TRUE
    /\ connectionRetries' = 0
    /\ dbCalls' = AfterReset(Without(dbCalls, i))
    /\ Fulfil(dbCalls[i])
    /\ dbRet' = [DbRet("connected", dbCalls[i].via, "resolved")
                   EXCEPT !.retries = dbCalls[i].retries, !.clean = dbCalls[i].clean]
    /\ UNCHANGED <<dbTimers, dbSteps>>

\* the mongoose.connect of the i-th call rejected: the catch block clears the
\* flag; below the cap it counts a retry and awaits the delay, at the cap it
\* rethrows, to initialize(), to the direct caller or to the catch of the
\* 'disconnected' listener, which logs
ConnectRejected(i) ==
    /\ dbCalls[i].pc = "connecting"
    /\ dbIsConnected' = FALSE
    /\ IF RetryAllowed(connectionRetries)
       THEN /\ connectionRetries' = connectionRetries + 1
            /\ dbCalls' = [dbCalls EXCEPT ![i].pc = "delaying", ![i].retries = @ + 1]
            /\ dbRet' = [DbRet("retry", dbCalls[i].via, "pending")
                           EXCEPT !.retries = dbCalls[i].retries + 1,
                                  !.delay = BaseDelay * connectionRetries',
                                  !.clean = dbCalls[i].clean]
            /\ UNCHANGED dbInitPc
       ELSE /\ dbCalls' = Without(dbCalls, i)
            /\ dbInitPc' = IF dbCalls[i].via = "initialize" THEN "rejected"
                           ELSE dbInitPc
            /\ dbRet' = [DbRet("failed", dbCalls[i].via,
                               IF dbCalls[i].via = "event" THEN "logged"
                               ELSE "rejected")
                           EXCEPT !.retries = dbCalls[i].retries,
                                  !.clean = dbCalls[i].clean]
            /\ UNCHANGED connectionRetries
    /\ UNCHANGED <<dbConnection, dbTimers, dbAttached, dbSteps>>

\* the delay of the i-th call is over: it calls connect() again, which
\* returns the connection or calls mongoose.connect
DelayElapsed(i) ==
    /\ dbCalls[i].pc = "delaying"
    /\ IF Reusable
       THEN /\ dbCalls' = Without(dbCalls, i)
            /\ Fulfil(dbCalls[i])
            /\ dbRet' = [DbRet("reused", dbCalls[i].via, "resolved")
                           EXCEPT !.retries = dbCalls[i].retries,
                                  !.clean = dbCalls[i].clean]
       ELSE /\ dbCalls' = [dbCalls EXCEPT ![i].pc = "connecting"]
            /\ dbRet' = [DbRet("attempt", dbCalls[i].via, "pending")
                           EXCEPT !.retries = dbCalls[i].retries,
                                  !.clean = dbCalls[i].clean]
            /\ UNCHANGED <<dbInitPc, dbAttached>>
    /\ UNCHANGED <<dbConnection, dbIsConnected, connectionRetries, dbTimers, dbSteps>>

\* the connection emits 'disconnected': the listener clears the flag and,
\* below the cap, sets a timer for a reconnect
OnDisconnected ==
    /\ dbAttached
    /\ DbStep
    /\ dbIsConnected' = FALSE
    /\ dbTimers' = IF RetryAllowed(connectionRetries)
                   THEN Append(dbTimers, BaseDelay) ELSE dbTimers
    /\ dbRet' = [DbRet("disconnected", "backend", "none")
                   EXCEPT !.scheduled = RetryAllowed(connectionRetries),
                          !.delay = IF RetryAllowed(connectionRetries)
                                    THEN BaseDelay ELSE 0]
    /\ UNCHANGED <<dbConnection, connectionRetries, dbCalls, dbAttached, dbInitPc>>

\* a reconnect timer fires: connect() is called, and its rejection is logged
ReconnectTimer ==
    /\ dbTimers # <<>>
    /\ dbTimers' = Tail(dbTimers)
    /\ dbCalls' = StartConnect("event")
    /\ dbRet' = DbRet("reconnect", "event", IF Reusable THEN "resolved" ELSE "pending")
    /\ UNCHANGED <<dbConnection, dbIsConnected, connectionRetries, dbAttached,
                   dbInitPc, dbSteps>>

\* the connection emits 'reconnected': the flag is set and the counter goes
\* back to 0
OnReconnected ==
    /\ dbAttached
    /\ DbStep
    /\ dbIsConnected' = TRUE
    /\ connectionRetries' = 0
    /\ dbCalls' = AfterReset(dbCalls)
    /\ dbRet' = DbRet("reconnected", "backend", "none")
    /\ UNCHANGED <<dbConnection, dbTimers, dbAttached, dbInitPc>>

\* the connection emits 'error': the listener logs and clears the flag
OnError ==
    /\ dbAttached
    /\ DbStep
    /\ dbIsConnected' = FALSE
    /\ dbRet' = DbRet("error", "backend", "none")
    /\ UNCHANGED <<dbConnection, connectionRetries, dbCalls, dbTimers, dbAttached,
                   dbInitPc>>

\* the connection emits 'connected': the listener sets the flag
OnConnected ==
    /\ dbAttached
    /\ DbStep
    /\ dbIsConnected' = TRUE
    /\ dbRet' = DbRet("connectedEvent", "backend", "none")
    /\ UNCHANGED <<dbConnection, connectionRetries, dbCalls, dbTimers, dbAttached,
                   dbInitPc>>

\* ------------------------------------------------------------- SpecDb
DbBudget == dbSteps < MaxDbSteps

\* the single connection; the registry and the event bus are left as
\* constructed
DbNext ==
    \/ DbInitialize
         /\ UNCHANGED <<regVars, busVars, srvVars>>
    \/ DbBudget
         /\ DbConnect
         /\ UNCHANGED <<regVars, busVars, srvVars>>
    \/ \E i \in 1..Len(dbCalls) : ConnectFulfilled(i)
         /\ UNCHANGED <<regVars, busVars, srvVars>>
    \/ \E i \in 1..Len(dbCalls) : ConnectRejected(i)
         /\ UNCHANGED <<regVars, busVars, srvVars>>
    \/ \E i \in 1..Len(dbCalls) : DelayElapsed(i)
         /\ UNCHANGED <<regVars, busVars, srvVars>>
    \/ DbBudget
         /\ OnDisconnected
         /\ UNCHANGED <<regVars, busVars, srvVars>>
    \/ ReconnectTimer
         /\ UNCHANGED <<regVars, busVars, srvVars>>
    \/ DbBudget
         /\ OnReconnected
         /\ UNCHANGED <<regVars, busVars, srvVars>>
    \/ DbBudget
         /\ OnError
         /\ UNCHANGED <<regVars, busVars, srvVars>>
    \/ DbBudget
         /\ OnConnected
         /\ UNCHANGED <<regVars, busVars, srvVars>>

SpecDb == Init /\ [][DbNext]_vars

\* a mongoose.connect that was called settles, a delay that is awaited ends
\* and a timer that was set fires
DbSettles ==
    /\ \/ \E i \in 1..Len(dbCalls) : ConnectFulfilled(i)
       \/ \E i \in 1..Len(dbCalls) : ConnectRejected(i)
       \/ \E i \in 1..Len(dbCalls) : DelayElapsed(i)
       \/ ReconnectTimer
    /\ UNCHANGED <<regVars, busVars, srvVars>>

\* the single connection with its pending work carried on
SpecDbLive == SpecDb /\ WF_vars(DbSettles)

\* ------------------------------------------------------ SpecDbClose
\* disconnect() up to its await: without a connection it returns at once,
\* otherwise it calls mongoose.disconnect
DbDisconnect ==
    /\ DbStep
    /\ dbCalls' = IF dbConnection = "null" THEN dbCalls
                  ELSE Append(dbCalls, [via |-> "disconnect", pc |-> "closing",
                                        retries |-> 0, clean |-> TRUE])
    /\ dbRet' = DbRet("disconnect", "direct",
                      IF dbConnection = "null" THEN "resolved" ELSE "pending")
    /\ UNCHANGED <<dbConnection, dbIsConnected, connectionRetries, dbTimers,
                   dbAttached, dbInitPc>>

\* the mongoose.disconnect of the i-th call settled.  Fulfilled, the flag is
\* cleared; the connection may have emitted 'disconnected' while it closed,
\* and the listener, which cannot tell why, then set its reconnect timer.
\* Rejected, the error is logged and rethrown.
DbDisconnectSettled(i, ok, emitted) ==
    /\ dbCalls[i].pc = "closing"
    /\ dbCalls' = Without(dbCalls, i)
    /\ dbIsConnected' = IF ok THEN FALSE ELSE dbIsConnected
    /\ LET set == ok /\ emitted /\ dbAttached /\ RetryAllowed(connectionRetries)
       IN  /\ dbTimers' = IF set THEN Append(dbTimers, BaseDelay) ELSE dbTimers
           /\ dbRet' = [DbRet("closed", "disconnect",
                              IF ok THEN "resolved" ELSE "rejected")
                          EXCEPT !.scheduled = set,
                                 !.delay = IF set THEN BaseDelay ELSE 0]
    /\ UNCHANGED <<dbConnection, connectionRetries, dbAttached, dbInitPc, dbSteps>>

\* the single connection with disconnect() among its callers' operations
CloseNext ==
    \/ DbNext
    \/ DbBudget
         /\ DbDisconnect
         /\ UNCHANGED <<regVars, busVars, srvVars>>
    \/ \E i \in 1..Len(dbCalls), ok \in BOOLEAN, emitted \in BOOLEAN :
         DbDisconnectSettled(i, ok, emitted)
         /\ UNCHANGED <<regVars, busVars, srvVars>>

SpecDbClose == Init /\ [][CloseNext]_vars

\* ------------------------------------------------------------ SpecSrv
\* the process has handlers for the termination signals: part_001 puts them
\* when the module loads, BusinessVisionAIServer at the end of initialize()
Installed == srvEntry = "ts" \/ (srvEntry = "js" /\ srvPc = "started")

\* startServer() up to its first await: databaseConnection.initialize() in
\* BusinessVisionAIServer.initialize(), connectAllDatabases() in part_001
StartServer(e) ==
    /\ srvEntry = "none"
    /\ srvEntry' = e
    /\ srvPc' = "database"
    /\ srvRet' = SrvRet("database.up", "startup", "called")
    /\ UNCHANGED <<srvHttp, isShuttingDown, srvRuns, srvGuards, srvExit, srvDone,
                   srvSteps>>

\* the step startup awaits settled.  After the database BusinessVisionAIServer
\* awaits eventBusManager.initialize() and part_001 calls app.listen; after
\* the event bus BusinessVisionAIServer sets the signal handlers and calls
\* app.listen; a step that fails, and a listener that cannot bind, end the
\* process with code 1
StartupSettled(ok) ==
    /\ srvExit = "none"
    /\ srvPc \in {"database", "eventBus"} \/ srvHttp = "binding"
    /\ LET step == IF srvPc = "started" THEN "http.up" ELSE srvPc \o ".up"
           listen == srvPc = "eventBus" \/ (srvPc = "database" /\ srvEntry = "ts")
       IN  /\ srvExit' = IF ok THEN "none" ELSE "1"
           /\ srvDone' = IF ok THEN srvDone \cup {step} ELSE srvDone
           /\ srvPc' = IF ~ok \/ srvPc = "started" THEN srvPc
                       ELSE IF listen THEN "started" ELSE "eventBus"
           /\ srvHttp' = IF srvPc = "started"
                         THEN (IF ok THEN "listening" ELSE "failed")
                         ELSE IF ok /\ listen THEN "binding" ELSE srvHttp
           /\ srvRet' = IF ~ok THEN SrvRet("exit", "startup", "1")
                        ELSE IF srvPc = "started"
                        THEN SrvRet("http.up", "startup", "done")
                        ELSE IF listen THEN SrvRet("http.up", "startup", "called")
                        ELSE SrvRet("eventBus.up", "startup", "called")
    /\ UNCHANGED <<srvEntry, isShuttingDown, srvRuns, srvGuards, srvSteps>>

\* what a shutdown sequence runs for: the signal handlers pass no exit code
Via(code) == IF code = "0" THEN "signal" ELSE "fault"

\* gracefulShutdown(exitCode) up to its first await: it sets the 30 s timer
\* and closes the HTTP server, or goes on to the event bus when there is none
GracefulShutdownStarts(code) ==
    LET first == IF srvHttp # "none" THEN "http" ELSE "eventBus"
    IN  /\ srvGuards' = srvGuards + 1
        /\ srvRuns' = Append(srvRuns, [pc |-> first, code |-> code])
        /\ srvHttp' = IF srvHttp \in {"binding", "listening"} THEN "closing"
                      ELSE srvHttp
        /\ srvRet' = SrvRet(first \o ".down", Via(code), "called")

\* a termination signal arrives.  Without a handler it ends the process.
\* The handler of part_001 awaits disconnectAllDatabases().  The handler of
\* BusinessVisionAIServer exits with 1 when a shutdown is under way;
\* otherwise it calls gracefulShutdown()
Signal ==
    /\ srvEntry # "none"
    /\ srvExit = "none"
    /\ srvSteps' = srvSteps + 1
    /\ IF ~Installed
       THEN /\ srvExit' = "killed"
            /\ srvRet' = SrvRet("exit", "signal", "killed")
            /\ UNCHANGED <<srvHttp, isShuttingDown, srvRuns, srvGuards>>
       ELSE IF srvEntry = "ts"
       THEN /\ srvRuns' = Append(srvRuns, [pc |-> "database", code |-> "0"])
            /\ srvRet' = SrvRet("database.down", "signal", "called")
            /\ UNCHANGED <<srvHttp, isShuttingDown, srvGuards, srvExit>>
       ELSE IF isShuttingDown
       THEN /\ srvExit' = "1"
            /\ srvRet' = SrvRet("exit", "signal", "1")
            /\ UNCHANGED <<srvHttp, isShuttingDown, srvRuns, srvGuards>>
       ELSE /\ isShuttingDown' = TRUE
            /\ GracefulShutdownStarts("0")
            /\ UNCHANGED srvExit
    /\ UNCHANGED <<srvEntry, srvPc, srvDone>>

\* an error nothing catches, or a rejection nothing handles.  The handlers
\* of BusinessVisionAIServer call gracefulShutdown(1), whether or not a
\* shutdown is under way; without them the process ends with code 1
Fault ==
    /\ srvEntry # "none"
    /\ srvExit = "none"
    /\ srvSteps' = srvSteps + 1
    /\ IF srvEntry = "js" /\ Installed
       THEN /\ GracefulShutdownStarts("1")
            /\ UNCHANGED srvExit
       ELSE /\ srvExit' = "1"
            /\ srvRet' = SrvRet("exit", "fault", "1")
            /\ UNCHANGED <<srvHttp, srvRuns, srvGuards>>
    /\ UNCHANGED <<srvEntry, srvPc, isShuttingDown, srvDone>>

\* the step the i-th shutdown sequence awaits settled.  server.close calls
\* back, when the connections have ended or, on a server another sequence
\* is closing, at once; eventBusManager.gracefulShutdown() and
\* disconnectAllDatabases() catch their errors, so only
\* databaseConnection.disconnect() can reject, which ends the process with
\* code 1.  After the database the timer is cleared and the process exits
\* with the code of the sequence
ShutdownSettled(i, ok) ==
    /\ srvExit = "none"
    /\ ok \/ (srvRuns[i].pc = "database" /\ srvEntry = "js")
    /\ IF srvRuns[i].pc = "database"
       THEN /\ srvRuns' = Without(srvRuns, i)
            /\ srvExit' = IF ok THEN srvRuns[i].code ELSE "1"
            /\ srvDone' = IF ok THEN srvDone \cup {"database.down"} ELSE srvDone
            /\ srvGuards' = IF ok /\ srvEntry = "js" THEN srvGuards - 1
                            ELSE srvGuards
            /\ srvRet' = SrvRet("exit", Via(srvRuns[i].code), srvExit')
            /\ UNCHANGED srvHttp
       ELSE /\ srvRuns' = [srvRuns EXCEPT ![i].pc = IF @ = "http" THEN "eventBus"
                                                    ELSE "database"]
            /\ srvDone' = srvDone \cup {srvRuns[i].pc \o ".down"}
            /\ srvHttp' = IF /\ srvRuns[i].pc = "http"
                             /\ \A j \in 1..(i - 1) : srvRuns[j].pc # "http"
                          THEN "closed" ELSE srvHttp
            /\ srvRet' = SrvRet(srvRuns'[i].pc \o ".down", Via(srvRuns[i].code),
                                "called")
            /\ UNCHANGED <<srvExit, srvGuards>>
    /\ UNCHANGED <<srvEntry, srvPc, isShuttingDown, srvSteps>>

\* the shutdown-timeout timer fires: the process exits with code 1
GuardFires ==
    /\ srvExit = "none"
    /\ srvGuards > 0
    /\ srvGuards' = srvGuards - 1
    /\ srvExit' = "1"
    /\ srvRet' = SrvRet("exit", "timer", "1")
    /\ UNCHANGED <<srvEntry, srvPc, srvHttp, isShuttingDown, srvRuns, srvDone,
                   srvSteps>>

\* an entry point, its signals and its uncaught errors; the services are
\* opaque to it
SrvNext ==
    \/ \E e \in {"js", "ts"} : StartServer(e)
         /\ UNCHANGED <<regVars, busVars, dbVars>>
    \/ \E ok \in BOOLEAN : StartupSettled(ok)
         /\ UNCHANGED <<regVars, busVars, dbVars>>
    \/ srvSteps < MaxSrvSteps
         /\ Signal
         /\ UNCHANGED <<regVars, busVars, dbVars>>
    \/ srvSteps < MaxSrvSteps
         /\ Fault
         /\ UNCHANGED <<regVars, busVars, dbVars>>
    \/ \E i \in 1..Len(srvRuns), ok \in BOOLEAN : ShutdownSettled(i, ok)
         /\ UNCHANGED <<regVars, busVars, dbVars>>
    \/ GuardFires
         /\ UNCHANGED <<regVars, busVars, dbVars>>

SpecSrv == Init /\ [][SrvNext]_vars

\* a timer that is set fires; nothing makes an awaited step settle
SpecSrvLive == SpecSrv /\ WF_vars(GuardFires /\ UNCHANGED <<regVars, busVars, dbVars>>)

\* ----------------------------------------------------------- SpecHttp
\* the response of the routes of healthRoutes.ts: both reduce
\* getConnectionStatus() with every(status === 'connected'); GET /health
\* answers 200 whatever the result, GET /health/database 200 or 503
HealthResponse(route) ==
    LET allDatabasesHealthy ==
            \A s \in ServiceNames : Has(s) => Status[s] = "connected"
    IN  IF route = "/health"
        THEN [code |-> 200,
              status |-> IF allDatabasesHealthy THEN "healthy" ELSE "degraded"]
        ELSE [code |-> IF allDatabasesHealthy THEN 200 ELSE 503,
              status |-> IF allDatabasesHealthy THEN "healthy" ELSE "unhealthy"]

\* the response of GET /health of sharedRoutes.js: checkServiceHealth gives
\* the status 'healthy' to every check whose function does not throw, and
\* healthCheck() of the single connection reports in its result, never by
\* throwing; pinged tells whether its ping succeeded
SharedHealthResponse(pinged) ==
    LET databaseHealth ==
            IF ~dbIsConnected THEN [status |-> "disconnected", healthy |-> FALSE]
            ELSE IF pinged THEN [status |-> "connected", healthy |-> TRUE]
            ELSE [status |-> "error", healthy |-> FALSE]
        healthChecks ==
            <<[service |-> "database", status |-> "healthy",
               details |-> databaseHealth.status],
              [service |-> "eventBus", status |-> "healthy", details |-> "status"],
              [service |-> "logger", status |-> "healthy", details |-> "operational"]>>
        overallStatus ==
            IF \A k \in 1..3 : healthChecks[k].status = "healthy"
            THEN "healthy" ELSE "degraded"
    IN  [code |-> IF overallStatus = "healthy" THEN 200 ELSE 503,
         status |-> overallStatus]

\* a GET on a health route is answered
HealthRoute(route, pinged) ==
    /\ srvSteps' = srvSteps + 1
    /\ LET res == IF route = "/api/health" THEN SharedHealthResponse(pinged)
                  ELSE HealthResponse(route)
       IN  srvRet' = [SrvRet("GET", route, "sent")
                        EXCEPT !.code = res.code, !.status = res.status]
    /\ UNCHANGED <<srvEntry, srvPc, srvHttp, isShuttingDown, srvRuns, srvGuards,
                   srvExit, srvDone>>

\* the health routes over the registry and the single connection
HttpNext ==
    \/ \E s \in ServiceNames : ConnectToDatabase(s)
         /\ UNCHANGED <<busVars, dbVars, srvVars>>
    \/ \E s \in ServiceNames : CreateSucceeded(s, "direct")
         /\ UNCHANGED <<busVars, dbVars, srvVars>>
    \/ \E s \in ServiceNames : \E h \in HandleIds(s) : BackendDisconnected(s, h)
         /\ UNCHANGED <<busVars, dbVars, srvVars>>
    \/ DbInitialize
         /\ UNCHANGED <<regVars, busVars, srvVars>>
    \/ \E i \in 1..Len(dbCalls) : ConnectFulfilled(i)
         /\ UNCHANGED <<regVars, busVars, srvVars>>
    \/ srvSteps < MaxSrvSteps
         /\ \E route \in {"/health", "/health/database", "/api/health"},
               pinged \in BOOLEAN : HealthRoute(route, pinged)
         /\ UNCHANGED <<regVars, busVars, dbVars>>

SpecHttp == Init /\ [][HttpNext]_vars

\* ------------------------------------------------------------- claims
\* the names callers pass
CallNames == ServiceNames \cup {UnknownService}

\* service s has an entry whose handle reports readyState connected
Healthy(s) ==
    /\ s \in ServiceNames
    /\ connections[s] # NoHandle
    /\ handles[s][connections[s]].readyState = 1

RECURSIVE SumPending(_)
SumPending(S) ==
    IF S = {} THEN 0
    ELSE LET s == CHOOSE x \in S : TRUE IN connectPending[s] + SumPending(S \ {s})

\* the connectToDatabase calls suspended in createConnection
NumSuspended == SumPending(ServiceNames) + Cardinality(allPending)

\* C1: a connect call for a service whose registered handle is connected
\* returns that very handle, makes no connection object, suspends in no
\* createConnection and leaves the registry as it was; the calls made by
\* connectAllDatabases do the same.
C1_ConnectReusesHealthyHandle ==
    [][\A s \in ServiceNames :
         /\ (ret'.op = "connect" /\ ret'.svc = s /\ Healthy(s))
              => /\ ret'.out = "resolved"
                 /\ ret'.h = connections[s]
                 /\ connections' = connections
                 /\ handles' = handles
                 /\ connectPending' = connectPending
         /\ (ret'.op = "connectAll" /\ Healthy(s))
              => /\ s \notin allPending'
                 /\ connections' = connections
                 /\ handles' = handles]_regVars

\* C1 witness: a direct connect call returned the registered handle at once
C1_Witness ==
    /\ ret.op = "connect"
    /\ ret.out = "resolved"
    /\ ret.h # NoHandle
    /\ connections[ret.svc] = ret.h
    /\ Len(handles[ret.svc]) = 1

\* C2: in every reachable state each open connection object of a service is
\* the one the registry maps the service to, so at most one is open per
\* service.
C2_OneLiveHandlePerService ==
    \A s \in ServiceNames :
        \A h \in HandleIds(s) : handles[s][h].open => connections[s] = h

\* C3: when a disconnect call that found an entry completes, whether close()
\* fulfilled or rejected, the connection object is closed and the registry
\* has no entry for the service.
C3_DisconnectClosesAndRemoves ==
    [][\A s \in ServiceNames :
         (ret'.op \in {"closed", "closeFailed"} /\ ret'.svc = s)
           => /\ connections'[s] = NoHandle
              /\ ~handles'[s][ret'.h].open]_regVars

\* C4: no disconnect call rejects: it is fulfilled when close() fulfils and
\* when close() rejects, and for a name without an entry it is fulfilled at
\* once, changes nothing, and a get of the name still fails with NotFound.
C4_DisconnectNeverThrows ==
    [][\A s \in CallNames :
         /\ (ret'.op \in {"closed", "closeFailed", "disconnect"} /\ ret'.svc = s)
              => ret'.out # "rejected"
         /\ (ret'.op = "closeFailed" /\ ret'.svc = s)
              => ret'.out = "resolved"
         /\ (ret'.op = "disconnect" /\ ret'.svc = s /\ ~Has(s))
              => /\ ret'.out = "resolved"
                 /\ connections' = connections
                 /\ handles' = handles
                 /\ closing' = closing
                 /\ GetResult(s)'.out = "NotFound"]_regVars

\* C4 witness: a close() rejected and the disconnect call was fulfilled
C4_Witness ==
    /\ ret.op = "closeFailed"
    /\ ret.via = "direct"
    /\ ret.out = "resolved"

\* C5: when createConnection rejects, the connect call rejects, it is no
\* longer suspended (no second attempt), and neither that run nor the run
\* that started the call changes the registry or makes a connection object.
C5_ConnectFailurePropagates ==
    [][/\ ret'.op = "createFailed"
            => /\ ret'.out = "rejected"
               /\ NumSuspended' = NumSuspended - 1
               /\ connections' = connections
               /\ handles' = handles
       /\ ret'.op = "connect"
            => /\ connections' = connections
               /\ handles' = handles]_regVars

\* C5 witness: a connect call failed while the service had an entry, which
\* is still there
C5_Witness ==
    /\ ret.op = "createFailed"
    /\ ret.out = "rejected"
    /\ Has(ret.svc)

\* C6: connectAllDatabases starts the connect calls of the four services
\* in one run, so that every call that does not reuse a handle is suspended
\* at the same time; the first call to fail rejects it with that call's
\* error, which later failures do not replace; that run closes no connection
\* object and removes no entry, and a call that is fulfilled, before or after
\* the rejection, registers its open connection object.
C6_ConnectAllFailsFastWithoutRollback ==
    [][/\ ret'.op = "connectAll"
            => /\ allPending' = {s \in ServiceNames : ~Healthy(s)}
               /\ ServiceNames = {"strategy", "assets", "usage", "eventStore"}
               /\ connections' = connections
               /\ handles' = handles
       /\ (ret'.op = "createFailed" /\ ret'.via = "all" /\ allPc = "pending")
            => /\ allPc' = "rejected"
               /\ allError' = ret'.svc
               /\ connections' = connections
               /\ handles' = handles
       /\ allPc = "rejected"
            => /\ allPc' = "rejected"
               /\ allError' = allError
       /\ (ret'.op = "created" /\ ret'.via = "all")
            => /\ connections'[ret'.svc] = ret'.h
               /\ handles'[ret'.svc][ret'.h].open
               /\ \A s \in ServiceNames \ {ret'.svc} :
                     /\ connections'[s] = connections[s]
                     /\ handles'[s] = handles[s]]_regVars

\* C6 witness: connectAllDatabases has rejected, and a call of it that was
\* fulfilled afterwards has its connection object registered and open while
\* another one is still suspended
C6_Witness ==
    /\ allPc = "rejected"
    /\ ret.op = "created"
    /\ ret.via = "all"
    /\ allError # ret.svc
    /\ connections[ret.svc] = ret.h
    /\ handles[ret.svc][ret.h].open
    /\ allPending # {}

\* C7: a get of a name returns the handle the registry maps the name to
\* when there is one, fails with NotFound exactly when there is none, and
\* changes neither the registry nor any connection object.
C7_GetReturnsEntryOrNotFound ==
    [][\A s \in CallNames :
         (ret'.op = "get" /\ ret'.svc = s)
           => /\ connections' = connections
              /\ handles' = handles
              /\ closing' = closing
              /\ Has(s) => (ret'.out = "returned" /\ ret'.h = connections[s])
              /\ ~Has(s) => (ret'.out = "NotFound" /\ ret'.h = NoHandle)
              /\ ret'.out = "NotFound" <=> ~Has(s)]_regVars

\* C7 witness: a get returned the handle of a registered service
C7_Witness ==
    /\ ret.op = "get"
    /\ ret.out = "returned"
    /\ ret.h # NoHandle
    /\ connections[ret.svc] = ret.h

\* C8: disconnectAllDatabases starts one disconnect call for every entry
\* present when it is called, is fulfilled only once none of them is still
\* suspended, and never rejects, close failures included.
C8_DisconnectAllWaitsForAll ==
    [][/\ ret'.op = "disconnectAll"
            => /\ dallKeys' = {s \in ServiceNames : connections[s] # NoHandle}
               /\ {c \in closing' : c.via = "all"} =
                    {[svc |-> s, h |-> connections[s], via |-> "all"] :
                        s \in {x \in ServiceNames : connections[x] # NoHandle}}
       /\ dallPc' # "rejected"
       /\ dallPc' = "resolved" => {c \in closing' : c.via = "all"} = {}
       /\ (dallPc = "pending" /\ {c \in closing' : c.via = "all"} = {})
            => dallPc' = "resolved"]_regVars

\* C8 witness: disconnectAllDatabases was fulfilled by a rejected close(),
\* the last of at least two disconnect calls to settle
C8_Witness ==
    /\ dallPc = "resolved"
    /\ ret.op = "closeFailed"
    /\ ret.via = "all"
    /\ Cardinality(dallKeys) >= 2

\* the name getConnectionStatus gives readyState rs
NameOf(rs) ==
    CASE rs = 0 -> "disconnected"
      [] rs = 1 -> "connected"
      [] rs = 2 -> "connecting"
      [] rs = 3 -> "disconnecting"
      [] OTHER -> "unknown"

\* what getConnectionStatus is to report for service s
Reported(s) ==
    IF Has(s) THEN NameOf(handles[s][connections[s]].readyState) ELSE "absent"

\* C9 (as stated): an entry leaves the registry only when a disconnect call
\* completes; an 'error' or 'disconnected' event on a service's registered
\* handle leaves every entry in place, makes the reported state of that
\* service a non-connected one and leaves the other services' states alone.
C9_EventMakesStateNonConnected ==
    [][\A s \in ServiceNames :
         /\ (Has(s) /\ connections'[s] = NoHandle) => ret'.op = "closed"
         /\ (ret'.op \in {"error", "disconnected"} /\ ret'.svc = s)
              => /\ connections' = connections
                 /\ connections[s] = ret'.h => Reported(s)' # "connected"
                 /\ \A o \in ServiceNames \ {s} : Reported(o)' = Reported(o)]_regVars

\* C9 (amended): an entry leaves the registry only when a disconnect call
\* completes; an 'error' or 'disconnected' event on a handle leaves every
\* entry in place and the other services' reported states alone; a
\* 'disconnected' event on the registered handle makes that service's
\* reported state "disconnected", an 'error' event changes no reported state.
C9_EventsKeepEntries ==
    [][\A s \in ServiceNames :
         /\ (Has(s) /\ connections'[s] = NoHandle) => ret'.op = "closed"
         /\ (ret'.op \in {"error", "disconnected"} /\ ret'.svc = s)
              => /\ connections' = connections
                 /\ \A o \in ServiceNames \ {s} : Reported(o)' = Reported(o)
         /\ (ret'.op = "disconnected" /\ ret'.svc = s /\ connections[s] = ret'.h)
              => Reported(s)' = "disconnected"
         /\ (ret'.op = "error" /\ ret'.svc = s)
              => Reported(s)' = Reported(s)]_regVars

\* C9 witness: the registered handle of one service was disconnected by the
\* backend; its entry is in place and reported "disconnected", another
\* service is reported "connected"
C9_Witness ==
    /\ ret.op = "disconnected"
    /\ connections[ret.svc] = ret.h
    /\ Reported(ret.svc) = "disconnected"
    /\ \E o \in ServiceNames \ {ret.svc} : Reported(o) = "connected"

\* C10: getConnectionStatus changes nothing and reports, for every
\* registered service, the name of its handle's readyState, one of the four
\* names; called once connectAllDatabases was fulfilled, with no other call,
\* backend event or failure since the start, it reports "connected" for each
\* of the four services.
C10_StatusReportsReadyStates ==
    [][ret'.op = "status"
         => /\ UNCHANGED <<connections, handles, connectPending, allPc,
                           allPending, allError, closing, dallPc, dallKeys>>
            /\ \A s \in ServiceNames :
                 /\ ret'.status[s] = Reported(s)
                 /\ Has(s) => ret'.status[s] \in
                      {"disconnected", "connected", "connecting", "disconnecting"}
            /\ (allPc = "resolved" /\ numSteps = 0 /\ dallPc = "idle")
                 => \A s \in ServiceNames : ret'.status[s] = "connected"]_regVars

\* C10 witness: the status read after a connectAllDatabases whose four
\* calls were fulfilled reports every service "connected"
C10_Witness ==
    /\ ret.op = "status"
    /\ allPc = "resolved"
    /\ numSteps = 1
    /\ \A s \in ServiceNames : ret.status[s] = "connected"

\* ------------------------------------------------- claims: event bus
\* C11: whenever the transport's ready flag is false, and so before
\* connect(), a direct publish and a direct subscribe are rejected with the
\* NotConnected error, and that run hands no command to the publisher or the
\* subscriber client, makes no backend subscription and binds no callback.
C11_NotReadyRejectsPublishAndSubscribe ==
    [][(busRet'.op \in {"publish", "subscribe"} /\ busRet'.via = "direct"
          /\ ~isConnected)
         => /\ busRet'.out = "rejected"
            /\ busRet'.err = NotConnected
            /\ pubQueue' = pubQueue
            /\ inbox' = inbox
            /\ subQueue' = subQueue
            /\ backendSubs' = backendSubs
            /\ listeners' = listeners]_busVars

\* C11 witness: a publish or subscribe before connect() was refused
C11_Witness ==
    /\ connectPc = "idle"
    /\ busRet.op \in {"publish", "subscribe"}
    /\ busRet.err = NotConnected

\* C12: when a message whose text is not JSON arrives on a subscribed
\* channel, the dispatch emits the raw text as a string, it invokes exactly
\* the callbacks bound to that channel, in order, and returns, and it removes
\* no callback and no backend subscription of any channel.
C12_MalformedMessageEmittedRaw ==
    [][(busRet'.op = "deliver" /\ ~IsJson(busRet'.text))
         => /\ busRet'.value = Str(busRet'.text)
            /\ busRet'.invoked = Bound(busRet'.channel)
            /\ \A i \in 1..Len(busRet'.invoked) :
                 busRet'.invoked[i].channel = busRet'.channel
            /\ busRet'.out = "returned"
            /\ listeners' = listeners
            /\ backendSubs' = backendSubs]_busVars

\* C12 witness: a malformed message reached a callback while another
\* channel had a callback bound too
C12_Witness ==
    /\ busRet.op = "deliver"
    /\ ~IsJson(busRet.text)
    /\ busRet.invoked # <<>>
    /\ \E i \in 1..Len(listeners) : listeners[i].channel # busRet.channel

\* C13: a failure of a handler is caught where the message is dispatched:
\* no dispatch on a bound channel, whatever the message, leaves a handler's
\* rejection unhandled, and the process keeps running, so that later
\* messages are still dispatched.
C13_HandlerFailureCaughtAtDispatch ==
    [][busRet'.op = "deliver"
         => /\ ~busRet'.unhandled
            /\ process' = "running"]_busVars

\* C14: the manager's gracefulShutdown() goes on past an unsubscribe that
\* failed: the failure is not propagated to the caller, and the shutdown
\* then awaits the unsubscribe of the next channel of the registry or, after
\* the last channel, the transport's disconnect().
C14_ShutdownContinuesPastFailures ==
    [][(busRet'.op = "unsubscribed" /\ busRet'.via = "shutdown"
          /\ busRet'.err # "none")
         => /\ busRet'.out = "resolved"
            /\ IF shutdown.idx < Len(channels)
               THEN /\ shutdown'.pc = "unsubscribing"
                    /\ shutdown'.idx = shutdown.idx + 1
                    /\ subQueue' # <<>>
                    /\ subQueue'[Len(subQueue')].kind = "unsub"
                    /\ subQueue'[Len(subQueue')].channel
                         = channels[shutdown.idx + 1].channel
               ELSE /\ shutdown'.pc = "disconnecting"
                    /\ disc'.pc = "pending"]_busVars

\* C15: the manager's initialized flag is set only when no subscribe that
\* setupGlobalEventHandlers started is still awaiting its reply; so with
\* initialize() resolved and no subscribe failed, the registry holds the
\* channels of all 14 bindings.
C15_InitializedAfterBindingsSettled ==
    /\ isInitialized
         => \A i \in 1..Len(subQueue) :
               ~(subQueue[i].kind = "sub" /\ subQueue[i].via = "manager")
    /\ (initPc = "resolved" /\ busSteps = 0) => ChannelKeys = BoundChannels

\* C16: when the subscribe of one binding fails during initialization, the
\* failure is caught: the manager's subscribe is fulfilled, initialize()
\* stays resolved with the flag set and the process running, the channel is
\* not in the registry, and no channel leaves the registry; when the
\* subscribe of a binding succeeds, its channel is in the registry.
C16_SubscribeFailureNotFatal ==
    [][(busRet'.op = "subscribed" /\ busRet'.via = "manager")
         => /\ busRet'.out = "resolved"
            /\ initPc' = "resolved"
            /\ isInitialized'
            /\ process' = process
            /\ (busRet'.err = "none") <=> (busRet'.channel \in ChannelKeys')
            /\ \A c \in ChannelKeys : c \in ChannelKeys']_busVars

\* C16 witness: a binding's subscribe failed after another one succeeded
C16_Witness ==
    /\ initPc = "resolved"
    /\ busRet.op = "subscribed"
    /\ busRet.via = "manager"
    /\ busRet.err = "SubscribeError"
    /\ busRet.channel \notin ChannelKeys
    /\ channels # <<>>

\* C17: when the transport's connect() has failed, connect() and the
\* manager's initialize() have both rejected, and from then on the
\* transport's ready flag and the manager's initialized flag are false, no
\* subscribe is awaited, and no channel is subscribed, bound or registered.
C17_ConnectFailurePropagates ==
    (connectPc = "rejected" \/ initPc = "rejected")
      => /\ connectPc = "rejected"
         /\ initPc = "rejected"
         /\ ~isConnected
         /\ ~isInitialized
         /\ subQueue = <<>>
         /\ backendSubs = {}
         /\ listeners = <<>>
         /\ channels = <<>>

\* C17 witness: initialize() rejected with the connect error, and a publish
\* through the manager came after it
C17_Witness ==
    /\ initPc = "rejected"
    /\ busRet.op = "publish"
    /\ busRet.err = NotConnected

\* C18: a publish through the manager never rejects, neither at the call
\* (NotConnected included) nor when the publisher's reply comes; and the
\* envelope of an accepted call is sent on the named channel as its JSON
\* text and has every member of the payload, and a timestamp and an eventId.
C18_ManagerPublishNeverThrows ==
    [][(busRet'.via = "manager" /\ busRet'.op \in {"publish", "published"})
         => /\ busRet'.out \in {"pending", "resolved"}
            /\ (busRet'.op = "publish" /\ busRet'.out = "pending")
                 => LET q == pubQueue'[Len(pubQueue')]
                        own == Spread(busRet'.sent)
                    IN  /\ Len(pubQueue') = Len(pubQueue) + 1
                        /\ q.channel = busRet'.channel
                        /\ q.text = Stringify(q.data)
                        /\ q.data.t = "object"
                        /\ \A i \in 1..Len(own) :
                             own[i][1] \notin {"timestamp", "eventId"}
                               => Field(q.data, own[i][1]) = own[i][2]
                        /\ Field(q.data, "timestamp") = Quote(Now)
                        /\ Field(q.data, "eventId") = Quote(EventId)]_busVars

\* C18 witness: the publisher rejected an envelope that carried the payload
\* and an eventId, and the manager's publish was fulfilled
C18_Witness ==
    /\ busRet.op = "published"
    /\ busRet.via = "manager"
    /\ busRet.err = "PublishError"
    /\ busRet.out = "resolved"
    /\ Field(busRet.sent, "userId") = Quote("u1")
    /\ HasKey(busRet.sent.f, "eventId")

\* C19: round trip: when a message published on the transport is delivered
\* to a callback of its channel, the value the callback gets equals the
\* published payload, for strings as for objects.
C19_RoundTrip ==
    [][(busRet'.op = "deliver" /\ busRet'.sent # Undefined
          /\ busRet'.invoked # <<>>)
         => busRet'.value = busRet'.sent]_busVars

\* C20: a publish on the ready transport invokes, in that run, the callbacks
\* bound in this process to the channel, besides handing the message to the
\* publisher client.
C20_PublishEmitsLocally ==
    [][(busRet'.op = "publish" /\ busRet'.via = "direct"
          /\ busRet'.out = "pending")
         => /\ Len(pubQueue') = Len(pubQueue) + 1
            /\ busRet'.invoked = Bound(busRet'.channel)]_busVars

\* C21: when the transport's unsubscribe(c) completes, the backend
\* subscription of c is gone and no callback is bound to c, while the
\* callbacks of every other channel stay bound, in their order; and a message
\* on a channel that is no longer subscribed invokes no callback.
C21_UnsubscribeDetachesChannel ==
    [][/\ (busRet'.op = "unsubscribed" /\ busRet'.err = "none")
            => /\ busRet'.channel \notin backendSubs'
               /\ \A i \in 1..Len(listeners') :
                    listeners'[i].channel # busRet'.channel
               /\ listeners' = SelectSeq(listeners,
                                   LAMBDA l : l.channel # Head(subQueue).channel)
       /\ (busRet'.op = "deliver" /\ busRet'.channel \notin backendSubs)
            => busRet'.invoked = <<>>]_busVars

\* C21 witness: an unsubscribe completed for a channel while a callback of
\* another channel was bound
C21_Witness ==
    /\ busRet.op = "unsubscribed"
    /\ busRet.err = "none"
    /\ busRet.via = "direct"
    /\ listeners # <<>>
    /\ busRet.channel \notin backendSubs

\* C22: the transport's disconnect() is safe in a partially initialized
\* state: called before connect(), after a connect() that failed, or on
\* clients an earlier disconnect() has closed, it never rejects; and whenever
\* a disconnect() completes, every client that exists is closed and the ready
\* flag is false.
C22_DisconnectSafeInAnyState ==
    [][(busRet'.via = "direct" /\ busRet'.op \in {"disconnect", "disconnected"})
         => /\ (\/ connectPc \in {"idle", "rejected"}
                \/ (disc.pc = "pending" /\ clients[Roles[disc.at]] = "closed"))
                 => busRet'.out \in {"pending", "resolved"}
            /\ busRet'.out = "resolved"
                 => /\ ~isConnected'
                    /\ \A r \in RoleNames :
                         clients'[r] \in {"null", "closed"}]_busVars

\* C23: the transport's ready flag becomes true only when connect() resumes
\* with the clients of the publish and the subscribe role connected, or on a
\* client's 'ready' event after that; a client's 'error' event leaves the
\* flag false and a 'ready' event leaves it true; and while the flag is
\* false a publish and a subscribe are rejected.
C23_ReadyFlagFollowsLinks ==
    [][/\ (~isConnected /\ isConnected')
            => \/ /\ busRet'.op \in {"connected", "initialized"}
                  /\ connectPc = "pending"
                  /\ connectPc' = "resolved"
                  /\ clients'["publisher"] = "ready"
                  /\ clients'["subscriber"] = "ready"
               \/ /\ busRet'.op = "ready"
                  /\ connectPc = "resolved"
       /\ connectPc' = "resolved" /\ connectPc = "pending" => isConnected'
       /\ busRet'.op = "error" => ~isConnected'
       /\ busRet'.op = "ready" => isConnected'
       /\ (busRet'.op \in {"publish", "subscribe"} /\ ~isConnected)
            => /\ busRet'.out \in {"rejected", CaughtOutcome(busRet'.via)}
               /\ busRet'.err = NotConnected]_busVars

\* C23 witness: after connect() a client's 'error' event cleared the flag and
\* a publish was rejected
C23_Witness ==
    /\ connectPc = "resolved"
    /\ \E r \in RoleNames : clients[r] = "failed"
    /\ ~isConnected
    /\ busRet.op = "publish"
    /\ busRet.out = "rejected"

\* C24: the manager's registry never holds two entries for one channel name;
\* and when a subscribe through the manager completes, the registry holds
\* exactly one entry for its channel, with the handler of that subscribe,
\* whatever handler the channel had before, and the entries of the other
\* channels are as they were.
C24_OneHandlerPerChannel ==
    [][/\ \A i, j \in 1..Len(channels') :
            channels'[i].channel = channels'[j].channel => i = j
       /\ (busRet'.op = "subscribed" /\ busRet'.via = "manager"
             /\ busRet'.err = "none")
            => /\ Cardinality({i \in 1..Len(channels') :
                                 channels'[i].channel = Head(subQueue).channel}) = 1
               /\ \A i \in 1..Len(channels') :
                    channels'[i].channel = Head(subQueue).channel
                      => channels'[i].handler = Head(subQueue).cb
               /\ \A i \in 1..Len(channels) :
                    channels[i].channel # Head(subQueue).channel
                      => channels'[i] = channels[i]]_busVars

\* C24 witness: two subscribes through the manager with different handlers
\* completed for one channel, and the registry holds the second handler
C24_Witness ==
    /\ busRet.op = "subscribed"
    /\ busRet.via = "manager"
    /\ \E i, j \in 1..Len(listeners) :
         /\ i < j
         /\ listeners[i].channel = busRet.channel
         /\ listeners[j].channel = busRet.channel
         /\ listeners[i].cb \in Callbacks
         /\ listeners[j].cb \in Callbacks
         /\ listeners[i].cb # listeners[j].cb
         /\ \E k \in 1..Len(channels) :
              /\ channels[k].channel = busRet.channel
              /\ channels[k].handler = listeners[j].cb

\* C25: graceful shutdown destroys the channel subscriptions of the registry
\* en masse: when the manager's gracefulShutdown() completes with every
\* unsubscribe and the disconnect succeeding, no subscribe awaiting its reply
\* and no channel subscribed at the backend any more, getStatus() reports
\* channelCount 0 and an empty list of channels.
C25_ShutdownEmptiesRegistry ==
    [][(shutdown.pc # "done" /\ shutdown'.pc = "done" /\ shutdown'.err = "none"
          /\ subQueue' = <<>> /\ backendSubs' = {})
         => /\ GetStatus'.channelCount = 0
            /\ GetStatus'.channels = <<>>]_busVars

\* ------------------------------------------------ claims: routing table
\* the commands the run handed to the publisher client
Handed == SubSeq(pubQueue', Len(pubQueue) + 1, Len(pubQueue'))

\* a handler of the manager got an event on channel c, with the transport
\* ready
Routed(c) ==
    /\ busRet'.op = "deliver"
    /\ busRet'.channel = c
    /\ busRet'.invoked # <<>>
    /\ isConnected

\* the routing table of the specification: the channel an event on c goes to
RoutedTo(c) ==
    CASE c = "business-strategy.request"     -> "internal.business-strategy.process"
      [] c = "asset-curator.request"         -> "internal.asset-curator.process"
      [] c = "usage-guardian.check"          -> "internal.usage-guardian.check"
      [] c = "business-strategy.completed"   -> "usage-guardian.update-usage"
      [] c = "asset-curator.completed"       -> "usage-guardian.update-usage"
      [] c = "business-strategy.error"       -> "system.agent-error"
      [] c = "asset-curator.error"           -> "system.agent-error"
      [] c = "usage-guardian.limit-exceeded" -> "system.usage-limit-exceeded"
      [] c = "user.login"                    -> "analytics.user-activity"
      [] c = "user.logout"                   -> "analytics.user-activity"
      [] c = "user.subscription-changed"     -> "usage-guardian.subscription-updated"
      [] c = "system.health-check"           -> "system.health-status"
      [] OTHER                               -> "none"

\* the event without the members the manager's publish adds
Strip(env) ==
    Obj(SelectSeq(env.f, LAMBDA m : m[1] \notin {"timestamp", "eventId"}))

\* the event env carries the payload v unchanged: without the members added
\* it is v; a null payload has no member to carry
Carries(env, v) ==
    /\ env.t = "object"
    /\ Strip(env) = (IF v.t = "null" THEN Obj(<<>>) ELSE v)

RequestChannels ==
    {"business-strategy.request", "asset-curator.request", "usage-guardian.check"}

\* C26: an event on business-strategy.request, asset-curator.request or
\* usage-guardian.check makes the handler publish exactly one event, on the
\* internal channel of the table, that carries the inbound payload
\* unchanged, whether the payload is an object or a string.
C26_RequestsForwardedUnchanged ==
    [][\A c \in RequestChannels :
         Routed(c)
           => /\ Len(Handed) = 1
              /\ Handed[1].channel = RoutedTo(c)
              /\ Carries(Handed[1].data, busRet'.value)]_busVars

CompletedChannels == {"business-strategy.completed", "asset-curator.completed"}

\* the agent of a channel, and the fixed action and the metric of the agent,
\* as the specification gives them
AgentOf(c) ==
    IF c \in {"business-strategy.completed", "business-strategy.error"}
    THEN "business-strategy" ELSE "asset-curator"

ActionOf(c) ==
    IF c = "business-strategy.completed" THEN "generate-strategy" ELSE "curate-assets"

MetricOf(c) ==
    IF c = "business-strategy.completed" THEN "tokensUsed" ELSE "assetsRetrieved"

\* C27: every event on business-strategy.completed or asset-curator.completed
\* makes the handler publish exactly one event on usage-guardian.update-usage,
\* whose members are the userId of the inbound payload, the agent as
\* agentType, the agent's fixed action, the agent's metric with the value it
\* has in the inbound payload, a timestamp and an eventId, and no other.
C27_CompletedReportsUsage ==
    [][\A c \in CompletedChannels :
         Routed(c)
           => /\ Len(Handed) = 1
              /\ Handed[1].channel = "usage-guardian.update-usage"
              /\ LET env == Handed[1].data
                     v == busRet'.value
                 IN  /\ Field(env, "userId") = Field(v, "userId")
                     /\ Field(env, "agentType") = Quote(AgentOf(c))
                     /\ Field(env, "action") = Quote(ActionOf(c))
                     /\ Field(v, MetricOf(c)) # "undefined"
                          => Field(env, MetricOf(c)) = Field(v, MetricOf(c))
                     /\ HasKey(env.f, "timestamp")
                     /\ HasKey(env.f, "eventId")
                     /\ \A i \in 1..Len(env.f) :
                          env.f[i][1] \in {"userId", "agentType", "action",
                                           MetricOf(c), "timestamp", "eventId"}]_busVars

SingleRouteChannels ==
    {"business-strategy.error", "asset-curator.error",
     "usage-guardian.limit-exceeded", "user.login", "user.logout",
     "user.subscription-changed"}

\* C28: the routing table is exact: every event on an agent's error channel,
\* on usage-guardian.limit-exceeded, user.login, user.logout or
\* user.subscription-changed causes exactly one publish, on the channel the
\* table gives for it, and an event on usage-guardian.usage-updated causes no
\* publish.
C28_RoutingTableExact ==
    [][/\ \A c \in SingleRouteChannels :
            Routed(c) => /\ Len(Handed) = 1
                         /\ Handed[1].channel = RoutedTo(c)
       /\ Routed("usage-guardian.usage-updated") => Handed = <<>>]_busVars

\* C29: every event on system.health-check makes the handler publish exactly
\* one event on system.health-status, and the published health is computed
\* from the status of the connection registry: when a database of the
\* registry is not connected, the event does not say healthy or it gives the
\* states of the databases.
C29_HealthReflectsRegistry ==
    [][Routed("system.health-check")
         => /\ Len(Handed) = 1
            /\ Handed[1].channel = "system.health-status"
            /\ HasKey(Handed[1].data.f, "channels")
            /\ (\E s \in ServiceNames : Has(s) /\ Status[s] # "connected")
                 => \/ Field(Handed[1].data, "status") # Quote("healthy")
                    \/ HasKey(Handed[1].data.f, "databases")]_busVars

\* ------------------------------------------- claims: single connection
\* C30: the retries of the single connection are bounded.  The counter never
\* exceeds maxRetries; a connect() makes at most maxRetries retries while the
\* backend keeps failing, and it gives up, rejecting with the error, only at
\* the cap; a retry is made only below the cap and raises the counter by
\* one; at the cap a 'disconnected' event sets no timer and starts no
\* connect; and it never retries forever: in the end no connect is in
\* flight and no reconnect is scheduled.
C30_RetriesBounded ==
    /\ [][/\ connectionRetries' <= MaxRetries
          /\ \A i \in 1..Len(dbCalls') :
               dbCalls'[i].clean => dbCalls'[i].retries <= MaxRetries
          /\ dbRet'.op = "failed"
               => /\ connectionRetries = MaxRetries
                  /\ dbRet'.out \in {"rejected", "logged"}
                  /\ Len(dbCalls') = Len(dbCalls) - 1
                  /\ dbRet'.clean => dbRet'.retries <= MaxRetries
          /\ dbRet'.op = "retry"
               => /\ connectionRetries < MaxRetries
                  /\ connectionRetries' = connectionRetries + 1
          /\ (dbRet'.op = "disconnected" /\ connectionRetries = MaxRetries)
               => /\ dbTimers' = dbTimers
                  /\ dbCalls' = dbCalls
                  /\ ~dbRet'.scheduled]_dbVars
    /\ <>[](dbCalls = <<>> /\ dbTimers = <<>>)

\* C30 witness: a reconnect gave up after maxRetries retries, and the
\* 'disconnected' event that came then set no timer
C30_Witness ==
    /\ dbRet.op = "disconnected"
    /\ connectionRetries = MaxRetries
    /\ ~dbRet.scheduled
    /\ dbInitPc = "resolved"
    /\ dbCalls = <<>>
    /\ dbTimers = <<>>

\* C31: on a 'disconnected' event the reconnect is scheduled after
\* baseDelay * k, where k is the number of the attempt it starts (the
\* retries counted so far plus one), as on the retry path of connect().
C31_EventDelayGrows ==
    [][(dbRet'.op = "disconnected" /\ dbRet'.scheduled)
         => /\ dbRet'.delay = BaseDelay * (connectionRetries + 1)
            /\ dbTimers' = Append(dbTimers, BaseDelay * (connectionRetries + 1))]_dbVars

\* C36: an explicit disconnect() never leads to an automatic reconnect.
\* When disconnect() completes, the connection is flagged disconnected, the
\* close has set no reconnect timer, no reconnect timer is pending and no
\* reconnect started by an event is in flight.
C36_NoReconnectAfterDisconnect ==
    [][(dbRet'.op = "closed" /\ dbRet'.out = "resolved")
         => /\ ~dbIsConnected'
            /\ ~dbRet'.scheduled
            /\ dbTimers' = <<>>
            /\ \A j \in 1..Len(dbCalls') : dbCalls'[j].via # "event"]_dbVars

\* ------------------------------------------------ claims: entry points
\* C32: on a termination signal the shutdown steps run in order, each after
\* the one before it has completed: the event bus is shut down only once the
\* HTTP server no longer accepts and has closed, the database is
\* disconnected only once the event bus shutdown has completed, and the
\* process exits with code 0 only once all three have completed.
C32_ShutdownInOrder ==
    [][srvRet'.via = "signal"
         => /\ (srvRet'.op = "eventBus.down" /\ srvRet'.out = "called")
                 => srvHttp' \in {"none", "closed"}
            /\ (srvRet'.op = "database.down" /\ srvRet'.out = "called")
                 => /\ srvHttp' \in {"none", "closed"}
                    /\ "eventBus.down" \in srvDone'
            /\ (srvRet'.op = "exit" /\ srvRet'.out = "0")
                 => /\ srvHttp' \in {"none", "closed"}
                    /\ {"eventBus.down", "database.down"} \subseteq srvDone']_srvVars

\* C33: after a termination signal the process exits in the end, even when
\* a graceful step never completes: a shutdown sequence that is under way
\* leads to the exit of the process, the timeout timer forcing it.
C33_ShutdownTerminates ==
    (srvRuns # <<>>) ~> (srvExit # "none")

\* C34: startup runs in order.  The event manager is initialized only once
\* the database connect has completed, and the HTTP listener is bound only
\* once the database connect and EventManager.initialize() have completed;
\* when one of the two steps fails the process exits with a non-zero code
\* and the listener was never bound.
C34_StartupInOrder ==
    [][/\ (srvRet'.op = "eventBus.up" /\ srvRet'.out = "called")
            => "database.up" \in srvDone'
       /\ srvHttp' # "none"
            => {"database.up", "eventBus.up"} \subseteq srvDone'
       /\ (srvRet'.op = "exit" /\ srvRet'.via = "startup" /\ srvPc # "started")
            => /\ srvExit' = "1"
               /\ srvHttp' = "none"]_srvVars

\* C35: every health endpoint answers 200 exactly when the composite status
\* is healthy and 503 when it is degraded or unhealthy, and the status is
\* healthy exactly when every connection of the registry is connected (for
\* the endpoint over the single connection: only when that one is).
C35_HealthCodeFollowsStatus ==
    [][(srvRet'.op = "GET" /\ srvSteps' # srvSteps)
         => /\ srvRet'.code = IF srvRet'.status = "healthy" THEN 200 ELSE 503
            /\ srvRet'.via # "/api/health"
                 => (srvRet'.status = "healthy"
                       <=> \A s \in ServiceNames :
                             Has(s) => Status[s] = "connected")
            /\ (srvRet'.via = "/api/health" /\ srvRet'.status = "healthy")
                 => dbIsConnected]_srvVars

\* ------------------------------------------------- claims: transport
\* C37: when connect() or a client's 'error' or 'ready' event leaves the
\* transport's ready flag true, the clients of the publish role and of the
\* subscribe role are both ready: a 'ready' event of one client does not
\* set the flag while another client is still failed.
C37_FlagImpliesBothReady ==
    [][(isConnected' /\ busRet'.op \in {"connected", "error", "ready"})
         => /\ clients'["publisher"] = "ready"
            /\ clients'["subscriber"] = "ready"]_busVars

\* ------------------------------------------------- claims: registry
\* C38: a disconnect removes only the handle it closed.  When its close()
\* completes while the service is registered with another handle, the one a
\* connect made and registered during the close, that handle stays
\* registered and get(s) returns it.
C38_DisconnectKeepsNewerHandle ==
    [][(ret'.op = "closed" /\ ret'.via = "direct" /\ Has(ret'.svc)
          /\ connections[ret'.svc] # ret'.h)
         => connections'[ret'.svc] = connections[ret'.svc]]_regVars

\* ------------------------------------------------- claims: manager
\* C39: when the manager's gracefulShutdown() completes and no subscribe is
\* suspended in the transport any more, no callback is attached to the
\* transport and no channel is subscribed on a live subscriber client, also
\* when subscribes of initialize() were pending while the shutdown ran.
C39_ShutdownLeavesNoCallback ==
    [][(/\ shutdown.pc # "done"
        /\ shutdown'.pc = "done"
        /\ shutdown'.err = "none"
        /\ subQueue' = <<>>)
         => /\ listeners' = <<>>
            /\ backendSubs' = {} \/ clients'["subscriber"] = "closed"]_busVars

\* C40: the choreography of the routing table terminates.  No channel a
\* handler of the manager publishes to is a channel of its bindings, so an
\* event it publishes is never delivered back to it: one inbound event
\* causes a chain of derived publishes of depth at most one, and in the end
\* nothing is left to publish or to dispatch.
C40_RoutingTerminates ==
    /\ [][/\ busRet'.op = "deliver"
               => \A i \in 1..Len(Handed) : Handed[i].channel \notin BoundChannels
          /\ busRet'.op = "published" => busRet'.channel \notin backendSubs
          /\ inbox' = <<>>]_busVars
    /\ <>[](process = "exited" \/ (pubQueue = <<>> /\ inbox = <<>>))

\* C40 witness: an inbound event made a handler publish, the publish was
\* carried out and nothing came back
C40_Witness ==
    /\ busRet.op = "published"
    /\ busRet.via = "manager"
    /\ busRet.channel \notin BoundChannels
    /\ pubQueue = <<>>
    /\ inbox = <<>>

=============================================================================
